---- MODULE Spec2Model ----
(***************************************************************************)
(* The manga description workflow of src/workflow.py: the generator pool,  *)
(* normalization, the consensus resolver, the decision gate, the judge     *)
(* (arbiter) fallback and the result assembler.                            *)
(*                                                                         *)
(* Representation.                                                         *)
(*  - A Python str whose characters matter (names, statuses) is a sequence *)
(*    of one-character strings, so that str.strip() is computed.           *)
(*  - A JSON value is a tagged record: JStr, JList, JDict, JNull.  A dict  *)
(*    is the sequence of its <<key, value>> items in insertion order.      *)
(*  - A generated text is a record [kind |-> ...]: a "FAILURE: ..." string,*)
(*    prose holding no JSON, or the serialization of a JSON value.         *)
(*  - factual_confidence is the exact rational [num, den] of the source's  *)
(*    float expression (the two agree on every comparison with the         *)
(*    threshold for the item counts reached here).                         *)
(***************************************************************************)
EXTENDS Integers, Sequences, FiniteSets, TLC

(***************************************************************************)
(* Bounds of the model                                                     *)
(***************************************************************************)
\* longest configured list of generator model ids
MaxModels == 5
\* most times one generated description lists the same character
MaxRepeats == 2
\* largest number of candidate items of a consensus report handed to the gate
MaxItems == 25

(***************************************************************************)
(* Program constants                                                       *)
(***************************************************************************)
\* workflow.py:188  "(... * (4 // n + 1))[:4]"
NumGenerations == 4
\* workflow.py:790  "if count >= 2"
ConsensusQuorum == 2
\* workflow.py:581  "if len(normalized_descriptions) >= 2"
MinNormalized == 2
\* workflow.py:926  "confidence_threshold = 56.0"
confidence_threshold == 56

(***************************************************************************)
(* Generic helpers                                                         *)
(***************************************************************************)
Range(s) == {s[i] : i \in 1..Len(s)}

Min(a, b) == IF a <= b THEN a ELSE b

\* Python "lst * k"
RECURSIVE Repeat(_, _)
Repeat(lst, k) == IF k <= 0 THEN <<>> ELSE lst \o Repeat(lst, k - 1)

\* Python "lst[:n]"
Slice(lst, n) == SubSeq(lst, 1, Min(n, Len(lst)))

(***************************************************************************)
(* Python strings as character sequences                                   *)
(***************************************************************************)
RECURSIVE LStrip(_)
LStrip(s) == IF s # <<>> /\ Head(s) = " " THEN LStrip(Tail(s)) ELSE s

RECURSIVE RStrip(_)
RStrip(s) ==
  IF s # <<>> /\ s[Len(s)] = " " THEN RStrip(SubSeq(s, 1, Len(s) - 1)) ELSE s

\* str.strip()
Strip(s) == RStrip(LStrip(s))

(***************************************************************************)
(* JSON values                                                             *)
(***************************************************************************)
JNull == [t |-> "null"]
JStr(s) == [t |-> "str", s |-> s]
JList(l) == [t |-> "list", l |-> l]
JDict(items) == [t |-> "dict", items |-> items]

IsStr(v) == v.t = "str"
IsList(v) == v.t = "list"
IsDict(v) == v.t = "dict"

\* Python truthiness of a JSON value
Truthy(v) ==
  CASE v.t = "null" -> FALSE
    [] v.t = "str" -> v.s # <<>>
    [] v.t = "list" -> v.l # <<>>
    [] v.t = "dict" -> v.items # <<>>

\* Python "a or b"
Or(a, b) == IF Truthy(a) THEN a ELSE b

HasKey(d, k) == \E i \in 1..Len(d.items) : d.items[i][1] = k

\* dict.get(k, default)
GetOr(d, k, default) ==
  IF HasKey(d, k)
  THEN d.items[CHOOSE i \in 1..Len(d.items) : d.items[i][1] = k][2]
  ELSE default

\* dict.get(k)
Get(d, k) == GetOr(d, k, JNull)

(***************************************************************************)
(* Generated texts                                                         *)
(***************************************************************************)
\* f"FAILURE: {detail}"
FailureText(detail) == [kind |-> "failure", detail |-> detail]
\* free text in which no extraction strategy finds an object
ProseText == [kind |-> "prose"]
\* json.dumps(value)
JsonText(value) == [kind |-> "json", value |-> value]

\* the text of an error message
MessageText(m) == [kind |-> "message", text |-> m]

\* text.startswith("FAILURE:")
StartsWithFailure(text) == text.kind = "failure"

(***************************************************************************)
(* Extractor (src/json_extraction.py)                                      *)
(***************************************************************************)
\* Python {}
EmptyDict == JDict(<<>>)

\* a text given token by token: each token is one character or one atomic
\* lexeme (a word of prose "w", a key, the fence, its tag "json")
RawText(chars) == [kind |-> "raw", chars |-> chars]

\* the three backquotes that open or close a fenced block
Fence == "FENCE"

Whitespace == {" ", "\n"}

RECURSIVE LStripWs(_)
LStripWs(s) == IF s # <<>> /\ Head(s) \in Whitespace THEN LStripWs(Tail(s)) ELSE s

RECURSIVE RStripWs(_)
RStripWs(s) ==
  IF s # <<>> /\ s[Len(s)] \in Whitespace
  THEN RStripWs(SubSeq(s, 1, Len(s) - 1)) ELSE s

\* str.strip() of a raw text
StripWs(s) == RStripWs(LStripWs(s))

\* json.dumps(value)
RECURSIVE json_dumps(_)
RECURSIVE DumpItems(_)
RECURSIVE DumpElements(_)
json_dumps(v) ==
  CASE v.t = "null" -> <<"null">>
    [] v.t = "str" -> <<"\"">> \o v.s \o <<"\"">>
    [] v.t = "list" -> <<"[">> \o DumpElements(v.l) \o <<"]">>
    [] v.t = "dict" -> <<"{">> \o DumpItems(v.items) \o <<"}">>

DumpItems(items) ==
  IF items = <<>> THEN <<>>
  ELSE <<"\"", Head(items)[1], "\"", ":", " ">> \o json_dumps(Head(items)[2])
         \o (IF Len(items) > 1 THEN <<",", " ">> ELSE <<>>)
         \o DumpItems(Tail(items))

DumpElements(l) ==
  IF l = <<>> THEN <<>>
  ELSE json_dumps(Head(l)) \o (IF Len(l) > 1 THEN <<",", " ">> ELSE <<>>)
         \o DumpElements(Tail(l))

\* the JSON values a raw text of the model can hold
GenreOnly == JDict(<< <<"genre", JStr(<<"g">>)>> >>)
TitleOnly == JDict(<< <<"title", JStr(<<"T">>)>> >>)
TitleAndGenre == JDict(<< <<"title", JStr(<<"T">>)>>, <<"genre", JStr(<<"g">>)>> >>)
NestedTitle == JDict(<< <<"genre", JStr(<<"g">>)>>, <<"work", TitleOnly>> >>)
JsonUniverse ==
  {EmptyDict, GenreOnly, TitleOnly, TitleAndGenre, NestedTitle,
   JStr(<<"g">>), JStr(<<"T">>), JNull}

\* the JSON grammar ignores whitespace between lexemes
IsLexeme(c) == c \notin Whitespace
Compact(chars) == SelectSeq(chars, IsLexeme)

\* json.loads(chars): the value whose serialization the text is, or a
\* JSONDecodeError
ParseError == [t |-> "error"]
json_loads(chars) ==
  LET hits == {v \in JsonUniverse : Compact(json_dumps(v)) = Compact(chars)}
  IN IF hits = {} THEN ParseError ELSE CHOOSE v \in hits : TRUE

Parses(chars) == json_loads(chars) # ParseError

\* the first of the values that is not a parse error
RECURSIVE FirstFound(_)
FirstFound(values) ==
  IF values = <<>> THEN ParseError
  ELSE IF Head(values) # ParseError THEN Head(values)
       ELSE FirstFound(Tail(values))

\* the first value among the candidates that json.loads accepts
FirstParsed(candidates) ==
  FirstFound([i \in 1..Len(candidates) |-> json_loads(StripWs(candidates[i]))])

\* where a match of the fence pattern, with the json tag (tagged) or
\* without it, begins at i: the newline ending \s* and the newline before the closing fence
FenceBodyStart(i, tagged) == IF tagged THEN i + 2 ELSE i + 1

FenceOpensAt(chars, i, tagged) ==
  /\ chars[i] = Fence
  /\ tagged => (i + 1 <= Len(chars) /\ chars[i + 1] \in {"json", "JSON"})

FenceCloses(chars, p) ==
  {q \in (p + 1)..(Len(chars) - 1) : chars[q] = "\n" /\ chars[q + 1] = Fence}

FenceNewlines(chars, i, tagged) ==
  {p \in FenceBodyStart(i, tagged)..Len(chars) :
     /\ chars[p] = "\n"
     /\ \A k \in FenceBodyStart(i, tagged)..(p - 1) : chars[k] \in Whitespace
     /\ FenceCloses(chars, p) # {}}

Max(S) == CHOOSE x \in S : \A y \in S : y <= x
Least(S) == CHOOSE x \in S : \A y \in S : x <= y

\* re.findall of the fence pattern from a position on: the bodies of
\* the non-overlapping matches, leftmost first
RECURSIVE FenceBlocks(_, _, _)
FenceBlocks(chars, from, tagged) ==
  LET starts == {i \in from..Len(chars) :
                   FenceOpensAt(chars, i, tagged)
                     /\ FenceNewlines(chars, i, tagged) # {}}
  IN IF starts = {} THEN <<>>
     ELSE LET i == Least(starts)
              p == Max(FenceNewlines(chars, i, tagged))
              q == Least(FenceCloses(chars, p))
          IN <<SubSeq(chars, p + 1, q - 1)>> \o FenceBlocks(chars, q + 2, tagged)

\* critical_json_patterns: the trigger words of each pattern, in order
critical_json_patterns ==
  << <<"CRITICAL:">>, <<"JSON object">>, <<"format", "findings">>, <<"structure">> >>

\* the position after which the trigger words have all occurred, 0 if never
RECURSIVE AfterTrigger(_, _, _)
AfterTrigger(chars, from, words) ==
  IF words = <<>> THEN from
  ELSE LET hits == {i \in (from + 1)..Len(chars) : chars[i] = Head(words)}
       IN IF hits = {} THEN 0 ELSE AfterTrigger(chars, Least(hits), Tail(words))

\* the group (\{.*\}) after a trigger: from the first "{" to the last "}"
TriggerMatches(chars, words) ==
  LET t == AfterTrigger(chars, 0, words)
      opens == {j \in (t + 1)..Len(chars) : chars[j] = "{"}
  IN IF t = 0 \/ opens = {} THEN <<>>
     ELSE LET j == Least(opens)
              closes == {k \in (j + 1)..Len(chars) : chars[k] = "}"}
          IN IF closes = {} THEN <<>> ELSE <<SubSeq(chars, j, Max(closes))>>

RECURSIVE TriggerCandidates(_, _)
TriggerCandidates(chars, patterns) ==
  IF patterns = <<>> THEN <<>>
  ELSE TriggerMatches(chars, Head(patterns)) \o TriggerCandidates(chars, Tail(patterns))

\* isinstance(parsed, dict) and ("index" in parsed or "title" in parsed)
HasExpectedFields(parsed) ==
  parsed # ParseError /\ IsDict(parsed)
    /\ (HasKey(parsed, "index") \/ HasKey(parsed, "title"))

\* brace_count after reading chars[s..i]
BraceCount(chars, s, i) ==
  Cardinality({k \in s..i : chars[k] = "{"}) - Cardinality({k \in s..i : chars[k] = "}"})

\* the inner loop of the nested-brace strategy from a position on: a
\* candidate that does not parse is skipped and the scan goes on, one that
\* parses ends the scan, returned if it has the expected fields
RECURSIVE ScanBraces(_, _, _)
ScanBraces(chars, s, from) ==
  LET ends == {i \in from..Len(chars) : chars[i] = "}" /\ BraceCount(chars, s, i) = 0}
  IN IF ends = {} THEN ParseError
     ELSE LET i == Least(ends)
              parsed == json_loads(SubSeq(chars, s, i))
          IN IF parsed = ParseError THEN ScanBraces(chars, s, i + 1)
             ELSE IF HasExpectedFields(parsed) THEN parsed ELSE ParseError

\* the outer loop over potential_starts
RECURSIVE NestedBraces(_, _)
NestedBraces(chars, from) ==
  LET starts == {s \in from..Len(chars) : chars[s] = "{"}
  IN IF starts = {} THEN ParseError
     ELSE LET s == Least(starts)
              found == ScanBraces(chars, s, s)
          IN IF found # ParseError THEN found ELSE NestedBraces(chars, s + 1)

\* re.findall of the simple brace pattern: the brace pairs holding no brace, in order
RECURSIVE SimpleBraces(_, _)
SimpleBraces(chars, from) ==
  LET pairs == {jk \in (from..Len(chars)) \X (from..Len(chars)) :
                  /\ jk[1] < jk[2]
                  /\ chars[jk[1]] = "{" /\ chars[jk[2]] = "}"
                  /\ \A k \in (jk[1] + 1)..(jk[2] - 1) : chars[k] \notin {"{", "}"}}
  IN IF pairs = {} THEN ParseError
     ELSE LET jk == CHOOSE x \in pairs : \A y \in pairs : x[1] <= y[1]
              parsed == json_loads(SubSeq(chars, jk[1], jk[2]))
          IN IF HasExpectedFields(parsed) THEN parsed
             ELSE SimpleBraces(chars, jk[2] + 1)

\* the cascade of strategies over a raw text
OrEmptyDict(found) == IF found # ParseError THEN found ELSE EmptyDict

ExtractFromRaw(chars) ==
  OrEmptyDict(FirstFound(
    <<json_loads(StripWs(chars)),
      FirstParsed(FenceBlocks(chars, 1, TRUE)),
      FirstParsed(FenceBlocks(chars, 1, FALSE)),
      FirstParsed(TriggerCandidates(chars, critical_json_patterns)),
      NestedBraces(chars, 1),
      SimpleBraces(chars, 1)>>))

\* extract_json_from_text: the direct parse returns whatever json.loads gives
\* (an object or not); prose holding no object falls through every strategy.
extract_json_from_text(text) ==
  CASE text.kind = "json" -> text.value
    [] text.kind = "prose" -> EmptyDict
    [] text.kind = "raw" -> ExtractFromRaw(text.chars)
    [] OTHER -> EmptyDict

(***************************************************************************)
(* Normalizer                                                              *)
(***************************************************************************)
\* name = person.get("name", str(person)); str(person) of a dict is its
\* rendering, a non-empty string other than "{}" unless the dict is empty.
StrOfDict(d) == IF d.items = <<>> THEN JStr(<<"{", "}">>) ELSE JStr(<<"{", ".", "}">>)

NameOf(entry) == GetOr(entry, "name", StrOfDict(entry))

\* one iteration of the loops of _normalize_person_list / _normalize_character_list
NormalizeEntry(entry) ==
  IF IsStr(entry) THEN <<entry>>
  ELSE IF IsDict(entry)
       THEN LET name == NameOf(entry)
            IN IF Truthy(name) /\ name # JStr(<<"{", "}">>) THEN <<name>> ELSE <<>>
       ELSE <<>>

RECURSIVE NormalizeEntries(_)
NormalizeEntries(l) ==
  IF l = <<>> THEN <<>> ELSE NormalizeEntry(Head(l)) \o NormalizeEntries(Tail(l))

_normalize_person_list(persons) ==
  IF IsStr(persons) THEN (IF persons.s # <<>> THEN <<persons>> ELSE <<>>)
  ELSE IF IsList(persons) THEN NormalizeEntries(persons.l)
  ELSE <<>>

_normalize_character_list(chars) ==
  IF IsList(chars) THEN NormalizeEntries(chars.l) ELSE <<>>

\* "x if isinstance(x, list) else [x] if x else []"
ListOrWrap(x) == IF IsList(x) THEN x.l ELSE IF Truthy(x) THEN <<x>> ELSE <<>>

\* the if/elif chain choosing pub_info
PubInfoOf(desc) ==
  IF HasKey(desc, "Publication") THEN Get(desc, "Publication")
  ELSE IF HasKey(desc, "publication") THEN Get(desc, "publication")
  ELSE IF HasKey(desc, "publication_info") THEN Get(desc, "publication_info")
  ELSE IF HasKey(desc, "Original Work") THEN Get(desc, "Original Work")
  ELSE EmptyDict

\* the body of the try block once desc is a non-empty dict
NormalizedOf(desc) ==
  LET pub_info == PubInfoOf(desc)
  IN [index |-> Or(Or(Get(desc, "index"), Get(desc, "Index")), Get(desc, "ID")),
      title |-> Or(Get(desc, "title"), Get(desc, "Title")),
      alternative_titles |->
        ListOrWrap(Or(Or(Or(Get(desc, "alternative_titles"),
                            Get(desc, "Alternative Titles")),
                         Get(desc, "AlternativeTitles")), JList(<<>>))),
      type |-> Or(Get(desc, "type"), Get(desc, "Type")),
      authors |-> _normalize_person_list(
                    Or(Or(Get(desc, "authors"), Get(desc, "Authors")), JList(<<>>))),
      artists |-> _normalize_person_list(
                    Or(Or(Or(Get(desc, "artists"), Get(desc, "Artists")),
                          Get(desc, "Artist")), JList(<<>>))),
      genres |-> ListOrWrap(Or(Or(Or(Get(desc, "genres"), Get(desc, "Genres")),
                                  Get(desc, "Genre")), JList(<<>>))),
      synopsis |-> Or(Or(Get(desc, "synopsis"), Get(desc, "Synopsis")),
                      Get(desc, "plot")),
      main_characters |-> _normalize_character_list(
                    Or(Or(Or(Get(desc, "main_characters"),
                             Get(desc, "Main Characters")),
                          Get(desc, "characters")), JList(<<>>))),
      publication_info |-> IF IsDict(pub_info) THEN pub_info ELSE EmptyDict,
      status |-> Or(Or(Or(Get(desc, "status"), Get(desc, "Status")),
                       Get(pub_info, "Status")), Get(pub_info, "status"))]

\* pub_info.get(...) raises AttributeError when pub_info is not a dict; the
\* "or" chain reaches it only when desc has no truthy status / Status
NormalizeRaises(desc) ==
  /\ ~IsDict(PubInfoOf(desc))
  /\ ~Truthy(Or(Get(desc, "status"), Get(desc, "Status")))

\* _normalize_description_structure: {} when nothing was extracted, when the
\* extracted value is not a dict (desc.get raises inside the try) or when the
\* body raises; the normalized dict otherwise.  The result is a record
\* [empty |-> TRUE] for {} and [empty |-> FALSE, d |-> fields] otherwise.
NormalizeExtracted(desc) ==
  IF ~Truthy(desc) THEN [empty |-> TRUE]
  ELSE IF ~IsDict(desc) THEN [empty |-> TRUE]
  ELSE IF NormalizeRaises(desc) THEN [empty |-> TRUE]
  ELSE [empty |-> FALSE, d |-> NormalizedOf(desc)]

_normalize_description_structure(desc_json_str) ==
  NormalizeExtracted(extract_json_from_text(desc_json_str))

(***************************************************************************)
(* Consensus resolver                                                      *)
(***************************************************************************)
\* exact rationals for factual_confidence
Rat(n, d) == [num |-> n, den |-> d]
RatLeq(a, b) == a.num * b.den <= b.num * a.den
RatMin(a, b) == IF RatLeq(a, b) THEN a ELSE b

\* the stripped strings of one list: "if isinstance(x, str) and x.strip():
\* all.append(x.strip())"
RECURSIVE StrippedStrings(_)
StrippedStrings(l) ==
  IF l = <<>> THEN <<>>
  ELSE (IF IsStr(Head(l)) /\ Strip(Head(l).s) # <<>>
        THEN <<JStr(Strip(Head(l).s))>> ELSE <<>>) \o StrippedStrings(Tail(l))

\* the two nested loops filling all_characters / all_authors
RECURSIVE AllCharacters(_)
AllCharacters(nds) ==
  IF nds = <<>> THEN <<>>
  ELSE StrippedStrings(Head(nds).main_characters) \o AllCharacters(Tail(nds))

RECURSIVE AllAuthors(_)
AllAuthors(nds) ==
  IF nds = <<>> THEN <<>>
  ELSE StrippedStrings(Head(nds).authors) \o AllAuthors(Tail(nds))

\* [desc.get("status") for desc in nds if desc.get("status")]
RECURSIVE AllStatuses(_)
AllStatuses(nds) ==
  IF nds = <<>> THEN <<>>
  ELSE (IF Truthy(Head(nds).status) THEN <<Head(nds).status>> ELSE <<>>)
       \o AllStatuses(Tail(nds))

\* collections.Counter: the count of x, and the keys in first-insertion order
Count(lst, x) == Cardinality({i \in 1..Len(lst) : lst[i] = x})

RECURSIVE CounterKeysFrom(_, _)
CounterKeysFrom(lst, i) ==
  IF i > Len(lst) THEN <<>>
  ELSE (IF \E j \in 1..(i - 1) : lst[j] = lst[i] THEN <<>> ELSE <<lst[i]>>)
       \o CounterKeysFrom(lst, i + 1)

CounterKeys(lst) == CounterKeysFrom(lst, 1)

\* [x for x, count in Counter(lst).items() if count >= 2]
ConsensusOf(lst) ==
  SelectSeq(CounterKeys(lst), LAMBDA x : Count(lst, x) >= ConsensusQuorum)

\* Counter(lst).most_common(1)[0][0]: the first key of maximal count
MostCommon(lst) ==
  LET keys == CounterKeys(lst)
      best == CHOOSE i \in 1..Len(keys) :
                /\ \A j \in 1..Len(keys) : Count(lst, keys[j]) <= Count(lst, keys[i])
                /\ \A j \in 1..(i - 1) : Count(lst, keys[j]) < Count(lst, keys[i])
  IN keys[best]

\* the confidence without the term total_consensus_items * 10
FactualConfidenceRatioOnly(total_consensus_items, total_possible_items) ==
  IF total_possible_items > 0
  THEN RatMin(Rat(100, 1), Rat(total_consensus_items * 100, total_possible_items))
  ELSE Rat(0, 1)

\* the confidence without the cap min(100.0, ...)
FactualConfidenceUncapped(total_consensus_items, total_possible_items) ==
  IF total_possible_items > 0
  THEN Rat(total_consensus_items * 100
             + total_consensus_items * 10 * total_possible_items,
           total_possible_items)
  ELSE Rat(0, 1)

\* min(100.0, consensus_ratio * 100 + total_consensus_items * 10), else 0.0
FactualConfidence(total_consensus_items, total_possible_items) ==
  IF total_possible_items > 0
  THEN RatMin(Rat(100, 1),
              Rat(total_consensus_items * 100
                    + total_consensus_items * 10 * total_possible_items,
                  total_possible_items))
  ELSE Rat(0, 1)

\* the dict returned by the except branch and, with an empty input, by the
\* early return
ZeroVerification ==
  [consensus_characters |-> <<>>, consensus_authors |-> <<>>,
   consensus_status |-> JNull, factual_confidence |-> Rat(0, 1),
   verified_facts |-> EmptyDict, conflicts |-> <<>>]

\* Counter(all_statuses) raises TypeError on an unhashable status
VerifyRaises(nds) ==
  \E i \in 1..Len(AllStatuses(nds)) :
    IsList(AllStatuses(nds)[i]) \/ IsDict(AllStatuses(nds)[i])

_verify_factual_consistency_with_grounding(nds) ==
  IF nds = <<>> THEN ZeroVerification
  ELSE IF VerifyRaises(nds) THEN ZeroVerification
  ELSE
    LET all_characters == AllCharacters(nds)
        all_authors == AllAuthors(nds)
        all_statuses == AllStatuses(nds)
        consensus_chars == ConsensusOf(all_characters)
        consensus_authors == ConsensusOf(all_authors)
        consensus_status ==
          IF all_statuses # <<>> THEN MostCommon(all_statuses) ELSE JNull
        total_consensus_items ==
          Len(consensus_chars) + Len(consensus_authors)
            + (IF Truthy(consensus_status) THEN 1 ELSE 0)
        total_possible_items ==
          Len(CounterKeys(all_characters)) + Len(CounterKeys(all_authors))
            + (IF all_statuses # <<>> THEN 1 ELSE 0)
    IN [consensus_characters |-> consensus_chars,
        consensus_authors |-> consensus_authors,
        consensus_status |-> consensus_status,
        factual_confidence |->
          FactualConfidence(total_consensus_items, total_possible_items),
        verified_facts |-> EmptyDict, conflicts |-> <<>>]

(***************************************************************************)
(* Consensus record                                                        *)
(***************************************************************************)
\* len(repr(v)) of a JSON value: quotes around a str, "None", brackets and
\* ", " separators of a list, braces, "key: value" and separators of a dict
RECURSIVE ReprLen(_)
RECURSIVE ReprLenList(_)
RECURSIVE ReprLenItems(_)
ReprLen(v) ==
  CASE v.t = "null" -> 4
    [] v.t = "str" -> Len(v.s) + 2
    [] v.t = "list" -> 2 + ReprLenList(v.l)
    [] v.t = "dict" -> 2 + ReprLenItems(v.items)
ReprLenList(l) ==
  IF l = <<>> THEN 0
  ELSE ReprLen(Head(l)) + (IF Len(l) > 1 THEN 2 ELSE 0) + ReprLenList(Tail(l))
ReprLenItems(items) ==
  IF items = <<>> THEN 0
  ELSE 4 + ReprLen(Head(items)[2]) + (IF Len(items) > 1 THEN 2 ELSE 0)
       + ReprLenItems(Tail(items))

\* len(str(d)) of a normalized dict, up to the part every normalized dict
\* shares (braces, the eleven keys and their separators)
StrLen(d) ==
  ReprLen(d.index) + ReprLen(d.title) + ReprLen(JList(d.alternative_titles))
    + ReprLen(d.type) + ReprLen(JList(d.authors)) + ReprLen(JList(d.artists))
    + ReprLen(JList(d.genres)) + ReprLen(d.synopsis)
    + ReprLen(JList(d.main_characters)) + ReprLen(d.publication_info)
    + ReprLen(d.status)

\* the first record taken as base whatever its length
BaseDescriptionFirst(nds) == nds[1]

\* max(nds, key=lambda d: len(str(d))): the first record of maximal length
BaseDescription(nds) ==
  nds[CHOOSE i \in 1..Len(nds) :
        /\ \A j \in 1..Len(nds) : StrLen(nds[j]) <= StrLen(nds[i])
        /\ \A j \in 1..(i - 1) : StrLen(nds[j]) < StrLen(nds[i])]

\* a dict-valued result: None, {} or a dict with its fields
PyNone == [kind |-> "None"]
PyEmptyDict == [kind |-> "empty_dict"]
PyDict(d) == [kind |-> "dict", d |-> d]
IsTruthyDict(x) == x.kind = "dict"

_create_consensus_description(nds, fv, manga_title) ==
  IF nds = <<>> THEN PyEmptyDict
  ELSE
    LET base_desc == BaseDescription(nds)
    IN PyDict(
         [index |-> base_desc.index,
          title |-> JStr(manga_title),
          alternative_titles |-> base_desc.alternative_titles,
          type |-> base_desc.type,
          authors |-> IF fv.consensus_authors # <<>>
                      THEN fv.consensus_authors ELSE base_desc.authors,
          artists |-> base_desc.artists,
          genres |-> base_desc.genres,
          synopsis |-> base_desc.synopsis,
          main_characters |-> IF fv.consensus_characters # <<>>
                              THEN fv.consensus_characters
                              ELSE base_desc.main_characters,
          publication_info |-> base_desc.publication_info,
          status |-> IF Truthy(fv.consensus_status)
                     THEN fv.consensus_status ELSE base_desc.status,
          _consensus_metadata |->
            [created_from |-> Len(nds),
             factual_confidence |-> fv.factual_confidence,
             consensus_items |->
               Len(fv.consensus_characters) + Len(fv.consensus_authors)]])

(***************************************************************************)
(* Judge (arbiter) texts                                                   *)
(*                                                                         *)
(* A judge text is a sequence of tokens: the three section labels, the     *)
(* blank line "\n\n" (the only whitespace token), and content tokens (a    *)
(* word of prose, a JSON object).                                          *)
(***************************************************************************)
EvaluateSimilarity == "Evaluate Similarity:"
ConfidenceScore == "Confidence Score:"
FinalDescriptionLabel == "Final Description:"
BlankLine == "\n\n"

\* workflow.py:1248
required_sections == <<EvaluateSimilarity, ConfidenceScore, FinalDescriptionLabel>>

\* all(section in text for section in required_sections)
HasRequiredSections(text) ==
  \A i \in 1..Len(required_sections) : required_sections[i] \in Range(text)

RECURSIVE LStripTokens(_)
LStripTokens(text) ==
  IF text # <<>> /\ Head(text) = BlankLine THEN LStripTokens(Tail(text)) ELSE text

RECURSIVE RStripTokens(_)
RStripTokens(text) ==
  IF text # <<>> /\ text[Len(text)] = BlankLine
  THEN RStripTokens(SubSeq(text, 1, Len(text) - 1)) ELSE text

\* str.strip() of a judge text
StripTokens(text) == RStripTokens(LStripTokens(text))

\* the lazy group (.+?) followed by (?=\n\n|\Z): everything up to the first
\* blank line, or to the end
RECURSIVE UpToBlankLine(_)
UpToBlankLine(text) ==
  IF text = <<>> \/ Head(text) = BlankLine THEN <<>>
  ELSE <<Head(text)>> \o UpToBlankLine(Tail(text))

\* re.search(r"Final Description:\s*(.+?)(?=\n\n|\Z)", judge_output, DOTALL):
\* the leftmost label that something follows; \s* skips the blank lines after
\* it; when only blank lines follow, backtracking leaves the group a newline,
\* which strip() empties; no match returns the whole judge output.
_extract_final_description_from_judge(judge_output) ==
  IF \E i \in 1..Len(judge_output) :
       judge_output[i] = FinalDescriptionLabel /\ i < Len(judge_output)
  THEN LET i == CHOOSE k \in 1..Len(judge_output) :
                  /\ judge_output[k] = FinalDescriptionLabel /\ k < Len(judge_output)
                  /\ \A j \in 1..(k - 1) :
                       ~(judge_output[j] = FinalDescriptionLabel /\ j < Len(judge_output))
           rest == LStripTokens(SubSeq(judge_output, i + 1, Len(judge_output)))
       IN StripTokens(UpToBlankLine(rest))
  ELSE judge_output

\* the first element of the tuple _judge_regular_descriptions returns
MissingStructure(text) == <<"Judge Output Missing Structure:">> \o text
JudgeException == <<"Judge Exception:", "e">>
JudgeNoCandidates == <<"Judge Blocked or No Candidates:", "reason">>
JudgeNoContent == <<"Judge Blocked or No Content:", "reason">>

\* a str-valued result: None or a text
NoText == [kind |-> "None"]
JudgeText(text) == [kind |-> "judge_text", text |-> text]
\* json.dumps(consensus_description)
ConsensusJson(d) == [kind |-> "consensus_json", d |-> d]
\* the "Enhanced Processing: ..." summary written on the consensus path
EnhancedSummary(n, fv) ==
  [kind |-> "enhanced_summary", created_from |-> n,
   factual_confidence |-> fv.factual_confidence,
   consensus_characters |-> fv.consensus_characters,
   consensus_authors |-> fv.consensus_authors]

\* truthiness of a str-valued result
IsTruthyText(x) ==
  CASE x.kind = "None" -> FALSE
    [] x.kind = "judge_text" -> x.text # <<>>
    [] OTHER -> TRUE

(***************************************************************************)
(* State                                                                   *)
(***************************************************************************)
VARIABLES
  pc,                 \* the step execute_manga_description_workflow is at
  row,                \* process_single_manga_row: row_data and what the call gave
  batch,              \* process_manga_dataframe: the frame, the futures, results_map, output_df
  config,             \* MangaAgentConfig: generator_model_ids, judge_model_id, enable_grounding
  manga_title,        \* the canonical input title
  models_to_run,      \* generate_descriptions_step: the model rotation
  attempt,            \* generate_descriptions_step: the loop index i
  generator_details,  \* generate_descriptions_step: (model_id, description) per attempt
  gen_tokens,         \* generate_descriptions_step: <<total_input_tokens, total_output_tokens>>
  generation_calls,   \* number of _generate_single_description calls issued
  valid_descriptions, \* the descriptions handed to enhanced processing and to the judge
  enhanced_result,    \* what enhanced_processing_step returned
  final_result,       \* what decide_final_output_step returned
  judge_tokens,       \* <<judge_input_tokens, judge_output_tokens>>
  judge_calls,        \* number of judge backend invocations issued
  workflow_result,    \* what format_workflow_results returned
  attempt_outcomes,   \* history: what each _generate_single_description call did
  judge_outcome,      \* history: what the judge backends answered
  judge_input         \* history: the judge_input_text built for the judge

inputVars == <<config, manga_title, row, batch>>
poolVars == <<models_to_run, attempt, generator_details, gen_tokens,
              generation_calls, attempt_outcomes>>
judgeVars == <<final_result, judge_tokens, judge_calls, judge_outcome, judge_input>>

vars == <<pc, inputVars, poolVars, valid_descriptions, enhanced_result,
          judgeVars, workflow_result>>

NotYet == [kind |-> "None"]

\* MangaAgentConfig with n generator model ids (the ids are 1..n) 
ConfigOf(n, grounding) ==
  [generator_model_ids |-> [i \in 1..n |-> i],
   judge_model_id |-> "judge",
   enable_grounding |-> grounding]

\* the state execute_manga_description_workflow starts in
InitWith(configs, titles) ==
  /\ pc = "start"
  /\ config \in configs
  /\ manga_title \in titles
  /\ models_to_run = <<>>
  /\ attempt = 0
  /\ generator_details = <<>>
  /\ gen_tokens = <<0, 0>>
  /\ generation_calls = 0
  /\ valid_descriptions = <<>>
  /\ enhanced_result = NotYet
  /\ final_result = NotYet
  /\ judge_tokens = <<0, 0>>
  /\ judge_calls = 0
  /\ workflow_result = NotYet
  /\ attempt_outcomes = <<>>
  /\ judge_outcome = NotYet
  /\ judge_input = NotYet
  /\ row = NotYet
  /\ batch = NotYet

(***************************************************************************)
(* Generator pool: generate_descriptions_step                              *)
(***************************************************************************)
\* the rotation without the "+ 1" in the number of repetitions
ModelsToRunOneRepetitionShort(ids) ==
  Slice(Repeat(ids, NumGenerations \div Len(ids)), NumGenerations)

\* (config.generator_model_ids * (4 // n + 1))[:4]
ModelsToRun(ids) ==
  Slice(Repeat(ids, NumGenerations \div Len(ids) + 1), NumGenerations)

\* the step without its check of the number of generators
ValidateConfigurationUnchecked ==
  /\ pc = "start"
  /\ pc' = "generate"
  /\ models_to_run' = Repeat(config.generator_model_ids, NumGenerations)
  /\ UNCHANGED <<inputVars, attempt, generator_details, gen_tokens,
                 generation_calls, attempt_outcomes, valid_descriptions,
                 enhanced_result, judgeVars, workflow_result>>

\* "if num_defined_generators == 0: raise ValueError", else the rotation
ValidateConfiguration ==
  /\ pc = "start"
  /\ IF Len(config.generator_model_ids) = 0
     THEN /\ pc' = "raised"
          /\ UNCHANGED models_to_run
     ELSE /\ pc' = "generate"
          /\ models_to_run' = ModelsToRun(config.generator_model_ids)
  /\ UNCHANGED <<inputVars, attempt, generator_details, gen_tokens,
                 generation_calls, attempt_outcomes, valid_descriptions,
                 enhanced_result, judgeVars, workflow_result>>

\* what one _generate_single_description call does: it raises, or it returns
\* (description_json_str, input_tokens, output_tokens)
Raised == [raised |-> TRUE]
Returned(text, tin, tout) == [raised |-> FALSE, text |-> text, tin |-> tin, tout |-> tout]

\* the record appended for an attempt with the given outcome
DetailOf(model_id, o) ==
  IF o.raised THEN <<model_id, FailureText("Exception in generation")>>
  ELSE <<model_id, o.text>>

\* an attempt that raises leaves no record
RecordAttemptDroppingRaised(details, model_id, o) ==
  IF o.raised THEN details ELSE Append(details, DetailOf(model_id, o))

\* the record put in front of the earlier ones
RecordAttemptAtFront(details, model_id, o) == <<DetailOf(model_id, o)>> \o details

\* generator_details.append(...) of the try block or of the except block
RecordAttempt(details, model_id, o) == Append(details, DetailOf(model_id, o))

\* the rest of a loop iteration once _generate_single_description has
\* returned or raised: add the tokens, append the record
RecordOutcome(outcomes) ==
  /\ \E o \in outcomes :
       /\ generator_details' =
            RecordAttempt(generator_details, models_to_run[attempt + 1], o)
       /\ gen_tokens' = IF o.raised THEN gen_tokens
                        ELSE <<gen_tokens[1] + o.tin, gen_tokens[2] + o.tout>>
       /\ attempt_outcomes' = Append(attempt_outcomes, o)
  /\ attempt' = attempt + 1
  /\ generation_calls' = generation_calls + 1
  /\ UNCHANGED <<inputVars, models_to_run, valid_descriptions,
                 enhanced_result, judgeVars, workflow_result>>

\* one iteration of "for i, model_id in enumerate(models_to_run)"
GenerateAttempt(outcomes) ==
  /\ pc = "generate"
  /\ attempt < Len(models_to_run)
  /\ RecordOutcome(outcomes)
  /\ UNCHANGED pc

\* the same iteration in two steps: the loop enters the synchronous call
\* _generate_single_description(...) of attempt + 1 and waits in it
StartAttempt ==
  /\ pc = "generate"
  /\ attempt < Len(models_to_run)
  /\ pc' = "calling"
  /\ UNCHANGED <<inputVars, poolVars, valid_descriptions, enhanced_result,
                 judgeVars, workflow_result>>

\* the call returns or raises and the iteration records it
FinishAttempt(outcomes) ==
  /\ pc = "calling"
  /\ RecordOutcome(outcomes)
  /\ pc' = "generate"

\* the filter that keeps every recorded description
ValidDescriptionsUnfiltered(details) == [i \in 1..Len(details) |-> details[i][2]]

\* [d[1] for d in generator_details if not d[1].startswith("FAILURE:")]
ValidDescriptions(details) ==
  LET kept == SelectSeq(details, LAMBDA d : ~StartsWithFailure(d[2]))
  IN [i \in 1..Len(kept) |-> kept[i][2]]

\* the end of the loop: filter the valid descriptions and return
GenerateReturn ==
  /\ pc = "generate"
  /\ attempt = Len(models_to_run)
  /\ valid_descriptions' = ValidDescriptions(generator_details)
  /\ pc' = "enhance"
  /\ UNCHANGED <<inputVars, poolVars, enhanced_result, judgeVars, workflow_result>>

(***************************************************************************)
(* Enhanced processing: enhanced_processing_step                           *)
(***************************************************************************)
\* the loop abandoned at the first description that does not normalize
RECURSIVE NormalizeAllUntilFailure(_)
NormalizeAllUntilFailure(descriptions) ==
  IF descriptions = <<>> THEN <<>>
  ELSE LET normalized == _normalize_description_structure(Head(descriptions))
       IN IF normalized.empty THEN <<>>
          ELSE <<normalized.d>> \o NormalizeAllUntilFailure(Tail(descriptions))

\* the loop appending every truthy _normalize_description_structure(desc)
AppendIfTruthy(normalized) == IF normalized.empty THEN <<>> ELSE <<normalized.d>>

RECURSIVE NormalizeAll(_)
NormalizeAll(descriptions) ==
  IF descriptions = <<>> THEN <<>>
  ELSE AppendIfTruthy(_normalize_description_structure(Head(descriptions)))
         \o NormalizeAll(Tail(descriptions))

\* the guard letting a single normalized record through
EnoughForConsensusWithOne(nds) == Len(nds) >= 1

\* "if len(normalized_descriptions) >= 2"
EnoughForConsensus(nds) == Len(nds) >= MinNormalized

\* factual_verification = {"factual_confidence": 0.0}
DefaultVerification == [factual_confidence |-> Rat(0, 1)]

\* the result dict, given the normalized records and the report on them
EnhancedResultWith(nds, fv, title) ==
  [normalized_descriptions |-> nds,
   factual_verification |-> fv,
   consensus_description |->
     IF EnoughForConsensus(nds)
     THEN _create_consensus_description(nds, fv, title)
     ELSE PyNone]

EnhancedResultFrom(nds, title) ==
  EnhancedResultWith(nds,
                     IF EnoughForConsensus(nds)
                     THEN _verify_factual_consistency_with_grounding(nds)
                     ELSE DefaultVerification,
                     title)

EnhancedResultOf(descriptions, title) ==
  EnhancedResultFrom(NormalizeAll(descriptions), title)

EnhancedProcessing ==
  /\ pc = "enhance"
  /\ enhanced_result' = EnhancedResultOf(valid_descriptions, manga_title)
  /\ pc' = "decide"
  /\ UNCHANGED <<inputVars, poolVars, valid_descriptions, judgeVars,
                 workflow_result>>

(***************************************************************************)
(* Judge: _judge_descriptions_strict and the calls under it                *)
(***************************************************************************)
\* a tuple (judge_output, input_tokens, output_tokens, finish_reason), and
\* the number of backend invocations made to obtain it
JudgeResult(out, tin, tout, finish, calls) ==
  [out |-> out, tin |-> tin, tout |-> tout, finish |-> finish, calls |-> calls]

\* _parse_grounded_judge_response returns its argument on every path
_parse_grounded_judge_response(text) == text

\* _try_grounded_judging on outcome g of the grounded backend: the SDK is
\* unavailable (no call), the call raises, or it answers with a text
_try_grounded_judging(g) ==
  CASE g.kind = "unavailable" -> JudgeResult(NoText, 0, 0, "None", 0)
    [] g.kind = "exception" -> JudgeResult(NoText, 0, 0, "None", 1)
    [] g.kind = "text" ->
         IF g.text # <<>>
              /\ HasRequiredSections(_parse_grounded_judge_response(StripTokens(g.text)))
         THEN JudgeResult(JudgeText(StripTokens(g.text)), g.tin, g.tout, "STOP", 1)
         ELSE JudgeResult(NoText, g.tin, g.tout, "None", 1)

\* _judge_regular_descriptions on outcome r of the regular backend
_judge_regular_descriptions(r) ==
  CASE r.kind = "exception" ->
         JudgeResult(JudgeText(JudgeException), 0, 0, "EXCEPTION_IN_JUDGE", 1)
    [] r.kind = "no_candidates" ->
         JudgeResult(JudgeText(JudgeNoCandidates), r.tin, r.tout,
                     "PROMPT_FEEDBACK_BLOCK", 1)
    [] r.kind = "no_content" ->
         JudgeResult(JudgeText(JudgeNoContent), r.tin, r.tout, r.finish, 1)
    [] r.kind = "text" ->
         IF HasRequiredSections(r.text)
         THEN JudgeResult(JudgeText(r.text), r.tin, r.tout, r.finish, 1)
         ELSE JudgeResult(JudgeText(MissingStructure(r.text)), r.tin, r.tout,
                          r.finish, 1)

\* grounded judging first when enabled, regular judging when it gave None
_judge_descriptions_strict(grounding, g, r) ==
  IF grounding /\ _try_grounded_judging(g).out # NoText
  THEN _try_grounded_judging(g)
  ELSE [_judge_regular_descriptions(r) EXCEPT
          !.calls = @ + (IF grounding THEN _try_grounded_judging(g).calls ELSE 0)]

(***************************************************************************)
(* Decision gate: decide_final_output_step                                 *)
(***************************************************************************)
\* the gate with a strict comparison against the threshold
should_use_consensus_strict(er) ==
  /\ ~RatLeq(er.factual_verification.factual_confidence, Rat(confidence_threshold, 1))
  /\ IsTruthyDict(er.consensus_description)
  /\ Len(er.normalized_descriptions) >= 2

\* factual_confidence >= confidence_threshold and consensus_description and
\* len(normalized_descriptions) >= 2
should_use_consensus(er) ==
  /\ RatLeq(Rat(confidence_threshold, 1), er.factual_verification.factual_confidence)
  /\ IsTruthyDict(er.consensus_description)
  /\ Len(er.normalized_descriptions) >= 2

FinalResult(status, description, output, finish) ==
  [final_status |-> status, final_description |-> description,
   judge_full_output |-> output, judge_finish_reason |-> finish]

\* the "if should_use_consensus" branch
ConsensusResult(er) ==
  FinalResult("SUCCESS",
              ConsensusJson(er.consensus_description.d),
              EnhancedSummary(Len(er.normalized_descriptions), er.factual_verification),
              "N/A_CONSENSUS_USED")

\* the try block of the else branch, given what the judge returned
JudgedResult(jr) ==
  LET final_description == JudgeText(_extract_final_description_from_judge(jr.out.text))
  IN FinalResult(IF IsTruthyText(final_description)
                 THEN "SUCCESS" ELSE "FAILED_JUDGE_EXTRACTION",
                 final_description, jr.out, jr.finish)

\* the except block of the else branch
JudgeRaisedResult ==
  FinalResult("FAILED_JUDGE_EXCEPTION", NoText, JudgeText(JudgeException),
              "EXCEPTION_IN_JUDGE")

\* the backend invocations _judge_descriptions_strict makes, in order: the
\* grounded one when grounding is enabled and the SDK is there, the regular one
\* when grounded judging was not tried or gave None
JudgeInvocations(grounding, g, r) ==
  (IF grounding /\ g.kind # "unavailable" THEN <<g>> ELSE <<>>)
    \o (IF grounding /\ _try_grounded_judging(g).out # NoText THEN <<>> ELSE <<r>>)

\* which backend's answer _judge_descriptions_strict returned
JudgeAnswer(grounding, g, r) ==
  IF grounding /\ _try_grounded_judging(g).out # NoText
  THEN [kind |-> "answered", by |-> "grounded", answer |-> g,
        invocations |-> JudgeInvocations(grounding, g, r)]
  ELSE [kind |-> "answered", by |-> "regular", answer |-> r,
        invocations |-> JudgeInvocations(grounding, g, r)]

\* _create_judge_input_text: one "--- Description i ---" entry per description
\* it is given, and the "[No valid descriptions ...]" line when it is given none
_create_judge_input_text(title, descriptions) ==
  [manga_title |-> title,
   num_descriptions |-> Len(descriptions),
   entries |-> descriptions,
   no_valid_descriptions_line |-> (Len(descriptions) = 0)]

\* the arbiter asked before the gate is consulted
DecideFinalOutputJudgingFirst(groundedOutcomes, regularOutcomes) ==
  /\ pc = "decide"
  /\ \E g \in groundedOutcomes, r \in regularOutcomes :
       IF r.kind = "raises"
       THEN /\ final_result' = JudgeRaisedResult
            /\ judge_tokens' = <<0, 0>>
            /\ judge_outcome' = [kind |-> "raised"]
            /\ UNCHANGED <<judge_calls, judge_input>>
       ELSE LET jr == _judge_descriptions_strict(config.enable_grounding, g, r)
            IN /\ final_result' = IF should_use_consensus(enhanced_result)
                                  THEN ConsensusResult(enhanced_result)
                                  ELSE JudgedResult(jr)
               /\ judge_tokens' = <<jr.tin, jr.tout>>
               /\ judge_calls' = judge_calls + jr.calls
               /\ judge_outcome' = JudgeAnswer(config.enable_grounding, g, r)
               /\ judge_input' =
                    _create_judge_input_text(manga_title, valid_descriptions)
  /\ pc' = "format"
  /\ UNCHANGED <<inputVars, poolVars, valid_descriptions, enhanced_result,
                 workflow_result>>

\* decide_final_output_step: g and r are what the grounded and the regular
\* judge backend answer if they are asked; r.kind = "raises" is an exception
\* escaping _judge_descriptions_strict
DecideFinalOutput(groundedOutcomes, regularOutcomes) ==
  /\ pc = "decide"
  /\ IF should_use_consensus(enhanced_result)
     THEN /\ final_result' = ConsensusResult(enhanced_result)
          /\ judge_tokens' = <<0, 0>>
          /\ UNCHANGED <<judge_calls, judge_outcome, judge_input>>
     ELSE \E g \in groundedOutcomes, r \in regularOutcomes :
            IF r.kind = "raises"
            THEN /\ final_result' = JudgeRaisedResult
                 /\ judge_tokens' = <<0, 0>>
                 /\ judge_outcome' = [kind |-> "raised"]
                 /\ UNCHANGED <<judge_calls, judge_input>>
            ELSE LET jr == _judge_descriptions_strict(config.enable_grounding, g, r)
                 IN /\ final_result' = JudgedResult(jr)
                    /\ judge_tokens' = <<jr.tin, jr.tout>>
                    /\ judge_calls' = judge_calls + jr.calls
                    /\ judge_outcome' = JudgeAnswer(config.enable_grounding, g, r)
                    /\ judge_input' =
                         _create_judge_input_text(manga_title, valid_descriptions)
  /\ pc' = "format"
  /\ UNCHANGED <<inputVars, poolVars, valid_descriptions, enhanced_result,
                 workflow_result>>

(***************************************************************************)
(* Result assembler: format_workflow_results                               *)
(***************************************************************************)
format_workflow_results(fr, details, total_tokens, cfg) ==
  [generator_details |-> details,
   judge_model_id_used |-> cfg.judge_model_id,
   judge_full_output |-> fr.judge_full_output,
   judge_finish_reason |-> fr.judge_finish_reason,
   final_status |-> fr.final_status,
   final_description |-> fr.final_description,
   total_input_tokens_workflow |-> total_tokens[1],
   total_output_tokens_workflow |-> total_tokens[2]]

\* step 5 of execute_manga_description_workflow
FormatResults ==
  /\ pc = "format"
  /\ workflow_result' =
       format_workflow_results(
         final_result, generator_details,
         <<gen_tokens[1] + judge_tokens[1], gen_tokens[2] + judge_tokens[2]>>,
         config)
  /\ pc' = "done"
  /\ UNCHANGED <<inputVars, poolVars, valid_descriptions, enhanced_result,
                 judgeVars>>

(***************************************************************************)
(* Row processing: process_single_manga_row (src/csv_orchestrator.py)      *)
(***************************************************************************)
\* a title cell: a string or None
StrTitle(chars) == [kind |-> "str", s |-> chars]
NoneTitle == [kind |-> "None"]

OpeningBrackets == {"[", "("}
ClosingBrackets == {"]", ")"}

\* re.sub of the bracket pattern: every group from an opening bracket to the
\* first closing bracket after it is removed
RECURSIVE RemoveBracketed(_)
RemoveBracketed(title) ==
  LET opens == {i \in 1..Len(title) :
                  /\ title[i] \in OpeningBrackets
                  /\ \E j \in (i + 1)..Len(title) : title[j] \in ClosingBrackets}
  IN IF opens = {} THEN title
     ELSE LET i == Least(opens)
              j == Least({k \in (i + 1)..Len(title) : title[k] \in ClosingBrackets})
          IN SubSeq(title, 1, i - 1) \o RemoveBracketed(SubSeq(title, j + 1, Len(title)))

\* the separators replaced by a space and the edition phrases removed (one
\* token stands for each of them)
ReplaceSeparators(title) ==
  [i \in 1..Len(title) |-> IF title[i] \in {"~", ":"} THEN " " ELSE title[i]]
phrases_to_remove == {"edition"}
IsNoPhrase(c) == c \notin phrases_to_remove
RemovePhrases(title) == SelectSeq(title, IsNoPhrase)

\* rstrip("?! ")
RECURSIVE RStripMarks(_)
RStripMarks(title) ==
  IF title # <<>> /\ title[Len(title)] \in {"?", "!", " "}
  THEN RStripMarks(SubSeq(title, 1, Len(title) - 1)) ELSE title

\* re.sub(r"\s+", " ", ...)
RECURSIVE CollapseSpaces(_)
CollapseSpaces(title) ==
  IF Len(title) < 2 THEN title
  ELSE IF title[1] = " " /\ title[2] = " " THEN CollapseSpaces(Tail(title))
  ELSE <<title[1]>> \o CollapseSpaces(Tail(title))

\* clean_manga_title of a string
clean_manga_title(title) ==
  CollapseSpaces(Strip(RStripMarks(RemovePhrases(ReplaceSeparators(RemoveBracketed(title))))))

\* row_data = (df_index, internal_index, original_manga_title, authors_info_json)
RowData(df_index, title) ==
  [df_index |-> df_index, original_manga_title |-> title]

\* the error_result of the except block
RowErrorResult(cfg) ==
  [generator_details |->
     [i \in 1..NumGenerations |->
        <<"EXCEPTION", MessageText("Unhandled Workflow Exception")>>],
   judge_model_id_used |-> cfg.judge_model_id,
   judge_full_output |-> MessageText("Unhandled Workflow Exception"),
   final_status |-> "FAILED_WORKFLOW_EXCEPTION",
   final_description |-> NotYet,
   total_input_tokens_workflow |-> 0,
   total_output_tokens_workflow |-> 0]

\* cleaned_title = clean_manga_title(original_manga_title), before the try
\* block: re.sub raises TypeError on None and the exception leaves the function
CleanTitle ==
  /\ pc = "row"
  /\ IF row.data.original_manga_title.kind = "str"
     THEN /\ manga_title' = clean_manga_title(row.data.original_manga_title.s)
          /\ pc' = "start"
     ELSE /\ pc' = "row_raised"
          /\ UNCHANGED manga_title
  /\ UNCHANGED <<row, batch, config, poolVars, valid_descriptions,
                 enhanced_result, judgeVars, workflow_result>>

\* return df_index, workflow_output_dict
RowReturn ==
  /\ pc = "done"
  /\ row # NotYet
  /\ row' = [row EXCEPT !.result = <<row.data.df_index, workflow_result>>]
  /\ pc' = "row_done"
  /\ UNCHANGED <<batch, config, manga_title, poolVars, valid_descriptions,
                 enhanced_result, judgeVars, workflow_result>>

\* except Exception: return df_index, error_result
RowExcept ==
  /\ pc = "raised"
  /\ row # NotYet
  /\ row' = [row EXCEPT !.result = <<row.data.df_index, RowErrorResult(config)>>]
  /\ pc' = "row_done"
  /\ UNCHANGED <<batch, config, manga_title, poolVars, valid_descriptions,
                 enhanced_result, judgeVars, workflow_result>>

(***************************************************************************)
(* Batch processing: process_manga_dataframe (src/csv_orchestrator.py)     *)
(***************************************************************************)
required_columns == {"index", "manga_title", "authors_info"}

\* a data frame: its columns and its rows, each row with its index label and
\* its manga_title cell
DataFrame(columns, rows) == [columns |-> columns, rows |-> rows]
FrameRow(label, title) == [label |-> label, manga_title |-> title]

\* what a future holds when its call is over: the exception that left
\* process_single_manga_row, or the tuple (df_index, result) it returned
FutureRaised == [raised |-> TRUE]
FutureReturned(df_index, result) == [raised |-> FALSE, value |-> <<df_index, result>>]
Future(state, outcome) == [state |-> state, outcome |-> outcome]

\* the error_result of the except branch of the as_completed loop
FutureErrorResult(cfg) ==
  [generator_details |->
     [i \in 1..4 |-> <<"ERROR_SLOT", MessageText("Future Exception")>>],
   judge_model_id_used |-> cfg.judge_model_id,
   judge_full_output |-> MessageText("Future Exception"),
   final_status |-> "FAILED_WORKFLOW_EXCEPTION",
   final_description |-> NotYet,
   total_input_tokens_workflow |-> 0,
   total_output_tokens_workflow |-> 0]

\* the cell written for a value: "" for None, str(value) otherwise
EmptyCell == [kind |-> "empty"]
CellOf(value) == IF value = NotYet THEN EmptyCell ELSE value

\* a row of output_df as prepared before the pool starts
PreparedRow(r) ==
  [label |-> r.label,
   descs |-> [i \in 1..4 |-> EmptyCell],
   judge_eval_text |-> EmptyCell,
   final_status |-> "NOT_PROCESSED",
   final_description_json |-> EmptyCell]

\* the cells _map_results_to_dataframe writes at df_idx for a result
MappedRow(out_row, result) ==
  LET gen_details == result.generator_details
  IN [out_row EXCEPT
        !.descs = [i \in 1..4 |->
                     IF i <= Len(gen_details) /\ Len(gen_details[i]) >= 2
                     THEN CellOf(gen_details[i][2])
                     ELSE MessageText("ERROR: Missing or Malformed Detail")],
        !.judge_eval_text = result.judge_full_output,
        !.final_status = result.final_status,
        !.final_description_json = CellOf(result.final_description)]

\* _map_results_to_dataframe: every row whose label is a key of results_map
\* gets the cells of the result stored under that key
_map_results_to_dataframe(output_df, results_map) ==
  [i \in 1..Len(output_df) |->
     IF output_df[i].label \in DOMAIN results_map
     THEN MappedRow(output_df[i], results_map[output_df[i].label])
     ELSE output_df[i]]

\* _calculate_success_rates: (success_rate, failure_rate)
_calculate_success_rates(output_df) ==
  LET total_processed_rows == Len(output_df)
      successful_runs ==
        Cardinality({i \in 1..Len(output_df) : output_df[i].final_status = "SUCCESS"})
  IN IF total_processed_rows > 0
     THEN <<Rat(successful_runs, total_processed_rows),
            Rat(total_processed_rows - successful_runs, total_processed_rows)>>
     ELSE <<Rat(0, 1), Rat(0, 1)>>

\* results_map[df_index] = result
StoreResult(results_map, df_index, result) ==
  [k \in DOMAIN results_map \cup {df_index} |->
     IF k = df_index THEN result ELSE results_map[k]]

batchOtherVars == <<pc, config, manga_title, row, poolVars, valid_descriptions,
                    enhanced_result, judgeVars, workflow_result>>

\* the check of the required columns: ValueError when one is missing
ValidateColumns ==
  /\ batch # NotYet
  /\ batch.step = "validate"
  /\ batch' = [batch EXCEPT !.step = IF required_columns \subseteq batch.df.columns
                                     THEN "prepare" ELSE "raised"]
  /\ UNCHANGED batchOtherVars

\* output_df prepared, and every row submitted to the executor
SubmitAll ==
  /\ batch # NotYet
  /\ batch.step = "prepare"
  /\ batch' = [batch EXCEPT
       !.step = "pool",
       !.output_df = [i \in 1..Len(batch.df.rows) |-> PreparedRow(batch.df.rows[i])],
       !.futures = [i \in 1..Len(batch.df.rows) |-> Future("pending", NotYet)]]
  /\ UNCHANGED batchOtherVars

Futures(state) == {i \in 1..Len(batch.futures) : batch.futures[i].state = state}

\* a free worker takes the next submitted row
WorkerStart ==
  /\ batch # NotYet
  /\ batch.step = "pool"
  /\ Futures("pending") # {}
  /\ Cardinality(Futures("running")) < batch.max_workers
  /\ batch' = [batch EXCEPT !.futures[Least(Futures("pending"))].state = "running"]
  /\ UNCHANGED batchOtherVars

\* what process_single_manga_row gives for a row: the TypeError of a None
\* title leaves it, otherwise it returns the df_index and a result
RowOutcomes(r, results) ==
  IF r.manga_title.kind = "str"
  THEN {FutureReturned(r.label, result) : result \in results}
  ELSE {FutureRaised}

\* the call of a running row is over
WorkerFinish(results) ==
  /\ batch # NotYet
  /\ batch.step = "pool"
  /\ \E i \in Futures("running") :
       \E o \in RowOutcomes(batch.df.rows[i], results) :
         batch' = [batch EXCEPT !.futures[i] = Future("finished", o)]
  /\ UNCHANGED batchOtherVars

\* the results keyed by the position in the order of completion
CollectFutureByPosition ==
  /\ batch # NotYet
  /\ batch.step = "pool"
  /\ \E i \in Futures("finished") :
       LET o == batch.futures[i].outcome
           df_index == batch.df.rows[Len(batch.completed) + 1].label
       IN batch' = [batch EXCEPT
            !.futures[i].state = "collected",
            !.completed = Append(batch.completed, i),
            !.results_map =
               StoreResult(batch.results_map, df_index,
                           IF o.raised THEN FutureErrorResult(config) ELSE o.value[2]),
            !.grand_total_input_tokens =
               @ + (IF o.raised THEN 0 ELSE o.value[2].total_input_tokens_workflow),
            !.grand_total_output_tokens =
               @ + (IF o.raised THEN 0 ELSE o.value[2].total_output_tokens_workflow)]
  /\ UNCHANGED batchOtherVars

\* one pass of the as_completed loop: df_index = future_to_df_index[future];
\* the result stored under it and its tokens added, or the error_result
\* stored when future.result() raises
CollectFuture ==
  /\ batch # NotYet
  /\ batch.step = "pool"
  /\ \E i \in Futures("finished") :
       LET o == batch.futures[i].outcome
           df_index == batch.df.rows[i].label
       IN batch' = [batch EXCEPT
            !.futures[i].state = "collected",
            !.completed = Append(batch.completed, i),
            !.results_map =
               StoreResult(batch.results_map, df_index,
                           IF o.raised THEN FutureErrorResult(config) ELSE o.value[2]),
            !.grand_total_input_tokens =
               @ + (IF o.raised THEN 0 ELSE o.value[2].total_input_tokens_workflow),
            !.grand_total_output_tokens =
               @ + (IF o.raised THEN 0 ELSE o.value[2].total_output_tokens_workflow)]
  /\ UNCHANGED batchOtherVars

\* the executor has shut down: the results mapped back and the rates computed
MapResults ==
  /\ batch # NotYet
  /\ batch.step = "pool"
  /\ Futures("collected") = 1..Len(batch.futures)
  /\ LET mapped == _map_results_to_dataframe(batch.output_df, batch.results_map)
     IN batch' = [batch EXCEPT !.step = "mapped",
                               !.output_df = mapped,
                               !.rates = _calculate_success_rates(mapped)]
  /\ UNCHANGED batchOtherVars

\* the finally block: the attributes of output_df
SetAttributes ==
  /\ batch # NotYet
  /\ batch.step = "mapped"
  /\ batch' = [batch EXCEPT
       !.step = "done",
       !.attributes =
          [workflow_success_rate |-> batch.rates[1],
           workflow_failure_rate |-> batch.rates[2],
           workflow_total_input_tokens |-> batch.grand_total_input_tokens,
           workflow_total_output_tokens |-> batch.grand_total_output_tokens]]
  /\ UNCHANGED batchOtherVars

(***************************************************************************)
(* Inputs                                                                  *)
(***************************************************************************)
Title == <<"T">>
NameA == JStr(<<"a">>)
NameB == JStr(<<"b">>)
NameAPadded == JStr(<<"a", " ">>)
AuthorX == JStr(<<"x">>)
AuthorY == JStr(<<"y">>)
Ongoing == JStr(<<"o">>)
Completed == JStr(<<"c">>)

\* the JSON text of a description with these fields
Description(chars, authors, status) ==
  JsonText(JDict(<< <<"title", JStr(Title)>>,
                    <<"authors", JList(authors)>>,
                    <<"main_characters", JList(chars)>>,
                    <<"status", status>> >>))

\* (prompt_token_count, candidates_token_count) one backend call reports
GenerationUsage == <<3, 5>>
JudgeUsage == <<7, 11>>

\* judge answers: well formed, one label missing, no label at all
GoodJudgeText ==
  <<EvaluateSimilarity, "w", ConfidenceScore, "w", FinalDescriptionLabel, "{json}">>
NoScoreJudgeText == <<EvaluateSimilarity, "w", FinalDescriptionLabel, "{json}">>
NoFinalJudgeText == <<EvaluateSimilarity, "w", ConfidenceScore, "w">>
NoLabelJudgeText == <<"w">>
\* every label present, nothing after the last one
EmptyFinalJudgeText == <<EvaluateSimilarity, "w", ConfidenceScore, "w", FinalDescriptionLabel>>
\* every label present, a paragraph after the final description
TrailingJudgeText == GoodJudgeText \o <<BlankLine, "w">>
\* every label present, the final description is prose, not a JSON object
ProseFinalJudgeText ==
  <<EvaluateSimilarity, "w", ConfidenceScore, "w", FinalDescriptionLabel, "w">>

\* every label present, in the reverse order
OutOfOrderJudgeText ==
  <<FinalDescriptionLabel, "{json}", BlankLine, ConfidenceScore, "w",
    EvaluateSimilarity, "w">>
\* every label present, the final one twice: a draft, then the description
TwoFinalsJudgeText ==
  <<EvaluateSimilarity, "w", ConfidenceScore, "w", FinalDescriptionLabel, "w",
    BlankLine, FinalDescriptionLabel, "{json}">>

\* the regular judge backend answering with text t
RegularText(t) ==
  [kind |-> "text", text |-> t, tin |-> JudgeUsage[1], tout |-> JudgeUsage[2],
   finish |-> "STOP"]
\* the grounded judge backend answering with text t
GroundedText(t) ==
  [kind |-> "text", text |-> t, tin |-> JudgeUsage[1], tout |-> JudgeUsage[2]]

(***************************************************************************)
(* Spec: the workflow over every generator pool size, each attempt         *)
(* raising, returning a failure string, or returning a text                *)
(***************************************************************************)
PoolConfigs == {ConfigOf(n, FALSE) : n \in 0..MaxModels}

PoolTexts == {ProseText, Description(<<NameA, NameB>>, <<AuthorX>>, Ongoing)}

PoolOutcomes ==
  {Raised, Returned(FailureText("Invalid JSON"), GenerationUsage[1], GenerationUsage[2])}
    \cup {Returned(t, GenerationUsage[1], GenerationUsage[2]) : t \in PoolTexts}

PlainJudgeOutcomes == {RegularText(t) : t \in {GoodJudgeText, NoScoreJudgeText}}

Init == InitWith(PoolConfigs, {Title})

Next ==
  \/ ValidateConfiguration
  \/ GenerateAttempt(PoolOutcomes)
  \/ GenerateReturn
  \/ EnhancedProcessing
  \/ DecideFinalOutput({[kind |-> "unavailable"]}, PlainJudgeOutcomes)
  \/ FormatResults

Spec == Init /\ [][Next]_vars

\* the pool with every generation call in two steps
NextSteps ==
  \/ ValidateConfiguration
  \/ StartAttempt
  \/ FinishAttempt(PoolOutcomes)
  \/ GenerateReturn
  \/ EnhancedProcessing
  \/ DecideFinalOutput({[kind |-> "unavailable"]}, PlainJudgeOutcomes)
  \/ FormatResults

SpecSteps == Init /\ [][NextSteps]_vars

(***************************************************************************)
(* SpecConsensus: the workflow over descriptions of varied content         *)
(***************************************************************************)
\* a description under another title than the canonical one
OtherTitleText ==
  JsonText(JDict(<< <<"title", JStr(<<"U">>)>>,
                    <<"authors", JList(<<AuthorX>>)>>,
                    <<"main_characters", JList(<<NameA, NameB>>)>>,
                    <<"status", Ongoing>> >>))

\* main_characters lists naming one character 0..MaxRepeats times
RepeatLists == {[i \in 1..k |-> NameA] : k \in 0..MaxRepeats}

ConsensusTexts ==
  {Description(chars, <<>>, JNull) : chars \in RepeatLists}
    \cup {ProseText,
          Description(<<NameA, NameB>>, <<AuthorX>>, Ongoing),
          Description(<<NameAPadded>>, <<>>, JNull),
          Description(<<NameB>>, <<AuthorY>>, JNull),
          Description(<<>>, <<AuthorX>>, JNull),
          Description(<<>>, <<>>, Completed),
          Description(<<NameA>>, <<>>, JList(<<Ongoing>>)),
          Description(<<>>, <<AuthorY, AuthorY>>, JNull),
          OtherTitleText}

ConsensusOutcomes ==
  {Returned(FailureText("Invalid JSON"), GenerationUsage[1], GenerationUsage[2])}
    \cup {Returned(t, GenerationUsage[1], GenerationUsage[2]) : t \in ConsensusTexts}

InitConsensus == InitWith({ConfigOf(2, FALSE)}, {Title})

NextConsensus ==
  \/ ValidateConfiguration
  \/ GenerateAttempt(ConsensusOutcomes)
  \/ GenerateReturn
  \/ EnhancedProcessing
  \/ DecideFinalOutput({[kind |-> "unavailable"]}, PlainJudgeOutcomes)
  \/ FormatResults

SpecConsensus == InitConsensus /\ [][NextConsensus]_vars

(***************************************************************************)
(* SpecGate: decide_final_output_step on every enhanced result of n        *)
(* normalized records, a report of c consensus items out of p candidate    *)
(* items, and a consensus description that is None, empty or a record      *)
(***************************************************************************)
GateText == Description(<<NameA>>, <<AuthorX>>, Ongoing)
GateRecord == _normalize_description_structure(GateText).d

GateReport(c, p) ==
  [ZeroVerification EXCEPT !.factual_confidence = FactualConfidence(c, p)]

\* the consensus items are among the candidate items: c <= p
GateCounts == {cp \in (0..MaxItems) \X (0..MaxItems) : cp[1] <= cp[2]}

GateInputs ==
  {[normalized_descriptions |-> [i \in 1..n |-> GateRecord],
    factual_verification |-> GateReport(cp[1], cp[2]),
    consensus_description |-> cd] :
     n \in 0..NumGenerations, cp \in GateCounts,
     cd \in {PyNone, PyEmptyDict, PyDict(GateRecord)}}

InitGate ==
  /\ pc = "decide"
  /\ config = ConfigOf(1, FALSE)
  /\ manga_title = Title
  /\ models_to_run = ModelsToRun(config.generator_model_ids)
  /\ attempt = NumGenerations
  /\ enhanced_result \in GateInputs
  /\ attempt_outcomes =
       [i \in 1..NumGenerations |->
          IF i <= Len(enhanced_result.normalized_descriptions)
          THEN Returned(GateText, GenerationUsage[1], GenerationUsage[2])
          ELSE Raised]
  /\ generator_details =
       [i \in 1..NumGenerations |-> DetailOf(models_to_run[i], attempt_outcomes[i])]
  /\ gen_tokens = <<GenerationUsage[1] * Len(enhanced_result.normalized_descriptions),
                    GenerationUsage[2] * Len(enhanced_result.normalized_descriptions)>>
  /\ generation_calls = NumGenerations
  /\ valid_descriptions = ValidDescriptions(generator_details)
  /\ final_result = NotYet
  /\ judge_tokens = <<0, 0>>
  /\ judge_calls = 0
  /\ workflow_result = NotYet
  /\ judge_outcome = NotYet
  /\ judge_input = NotYet
  /\ row = NotYet
  /\ batch = NotYet

NextGate ==
  \/ DecideFinalOutput({[kind |-> "unavailable"]}, PlainJudgeOutcomes)
  \/ FormatResults

SpecGate == InitGate /\ [][NextGate]_vars

(***************************************************************************)
(* SpecJudge: the workflow with one generator model, grounding on or off,  *)
(* over what the two judge backends can answer                             *)
(***************************************************************************)
JudgeConfigs == {ConfigOf(1, grounding) : grounding \in BOOLEAN}

JudgePoolOutcomes ==
  {Raised, Returned(GateText, GenerationUsage[1], GenerationUsage[2])}

GroundedJudgeOutcomes ==
  {[kind |-> "unavailable"], [kind |-> "exception"]}
    \cup {GroundedText(t) : t \in {GoodJudgeText, NoScoreJudgeText,
                                    OutOfOrderJudgeText}}

RegularJudgeOutcomes ==
  {[kind |-> "exception"],
   [kind |-> "no_candidates", tin |-> JudgeUsage[1], tout |-> JudgeUsage[2]],
   [kind |-> "no_content", tin |-> JudgeUsage[1], tout |-> JudgeUsage[2],
    finish |-> "SAFETY"]}
    \cup {RegularText(t) : t \in {GoodJudgeText, NoScoreJudgeText, NoFinalJudgeText,
                                   NoLabelJudgeText, EmptyFinalJudgeText,
                                   TrailingJudgeText, ProseFinalJudgeText,
                                   OutOfOrderJudgeText, TwoFinalsJudgeText}}

InitJudge == InitWith(JudgeConfigs, {Title})

NextJudge ==
  \/ ValidateConfiguration
  \/ GenerateAttempt(JudgePoolOutcomes)
  \/ GenerateReturn
  \/ EnhancedProcessing
  \/ DecideFinalOutput(GroundedJudgeOutcomes, RegularJudgeOutcomes)
  \/ FormatResults

SpecJudge == InitJudge /\ [][NextJudge]_vars

\* descriptions of every shape the normalizer distinguishes: no JSON, JSON
\* that is not an object, the empty object, an object whose publication is
\* not an object, entries that are strings / objects with and without a
\* name, bare scalars where a list is canonical, absent list fields
Object(items) == JsonText(JDict(<< <<"title", JStr(Title)>> >> \o items))
Named(name) == JDict(<< <<"name", name>> >>)
NoName == JDict(<< <<"role", NameA>> >>)

NonObjectText == JsonText(JList(<<NameA>>))
EmptyObjectText == JsonText(EmptyDict)
BadPublicationText == Object(<< <<"publication", NameA>> >>)
MixedEntriesText ==
  Object(<< <<"authors", JList(<<AuthorX, Named(AuthorY), Named(JStr(<<>>)),
                                 EmptyDict>>)>>,
            <<"artists", JList(<<Named(AuthorX)>>)>>,
            <<"main_characters", JList(<<NameA, Named(NameB)>>)>>,
            <<"status", Ongoing>> >>)
NoNameEntryText ==
  Object(<< <<"authors", JList(<<AuthorX, NoName>>)>>, <<"status", Ongoing>> >>)
ListNameEntryText ==
  Object(<< <<"main_characters", JList(<<Named(JList(<<NameA, NameB>>))>>)>>,
            <<"status", Ongoing>> >>)
BareScalarsText ==
  Object(<< <<"alternative_titles", NameB>>, <<"authors", AuthorX>>,
            <<"artists", AuthorY>>, <<"genres", NameA>>,
            <<"status", Ongoing>> >>)
BareCharacterText ==
  Object(<< <<"main_characters", NameA>>, <<"status", Ongoing>> >>)
AbsentListsText == Object(<< <<"status", Completed>> >>)

NormalizerTexts ==
  {ProseText, NonObjectText, EmptyObjectText, BadPublicationText,
   MixedEntriesText, NoNameEntryText, ListNameEntryText, BareScalarsText,
   BareCharacterText, AbsentListsText}

NormalizerOutcomes ==
  {Returned(FailureText("Invalid JSON"), GenerationUsage[1], GenerationUsage[2])}
    \cup {Returned(t, GenerationUsage[1], GenerationUsage[2]) : t \in NormalizerTexts}

InitNormalize == InitWith({ConfigOf(1, FALSE)}, {Title})

NextNormalize ==
  \/ ValidateConfiguration
  \/ GenerateAttempt(NormalizerOutcomes)
  \/ GenerateReturn
  \/ EnhancedProcessing
  \/ DecideFinalOutput({[kind |-> "unavailable"]}, PlainJudgeOutcomes)
  \/ FormatResults

SpecNormalize == InitNormalize /\ [][NextNormalize]_vars

\* raw texts around a JSON object: its direct serialization, the
\* serialization in a fenced block tagged json inside prose (the fence lines
\* flush left or indented like the block of test_json_extraction), in an
\* untagged fenced block, after a trigger word, bare inside prose; and prose
\* holding no object
ExtractObjects == {EmptyDict, GenreOnly, TitleOnly, TitleAndGenre, NestedTitle}
Indents == {<<>>, <<" ", " ">>}

DirectText(o) == RawText(json_dumps(o))
FencedText(indent, o) ==
  RawText(<<"w", " ", "w", "\n">> \o indent \o <<Fence, "json", "\n">>
            \o indent \o json_dumps(o) \o <<"\n">>
            \o indent \o <<Fence, "\n", "w">>)
UntaggedFencedText(o) ==
  RawText(<<"w", "\n", Fence, "\n">> \o json_dumps(o) \o <<"\n", Fence>>)
TriggeredText(o) == RawText(<<"w", " ", "structure", " ">> \o json_dumps(o))
EmbeddedText(o) == RawText(<<"w", " ">> \o json_dumps(o) \o <<" ", "w">>)
PlainProse == RawText(<<"w", " ", "w">>)
BracedProse == RawText(<<"w", " ", "{", "w", "}">>)
ScalarText == RawText(json_dumps(JStr(<<"g">>)))

ExtractTexts ==
  {DirectText(o) : o \in ExtractObjects}
    \cup {FencedText(indent, o) : indent \in Indents, o \in ExtractObjects}
    \cup {UntaggedFencedText(o) : o \in ExtractObjects}
    \cup {TriggeredText(o) : o \in ExtractObjects}
    \cup {EmbeddedText(o) : o \in ExtractObjects}
    \cup {PlainProse, BracedProse, ScalarText}

\* the pool has returned: two attempts gave a raw text, two raised
InitExtract ==
  /\ pc = "enhance"
  /\ config = ConfigOf(1, FALSE)
  /\ manga_title = Title
  /\ models_to_run = ModelsToRun(config.generator_model_ids)
  /\ attempt = NumGenerations
  /\ attempt_outcomes \in
       {<<Returned(t1, GenerationUsage[1], GenerationUsage[2]),
          Returned(t2, GenerationUsage[1], GenerationUsage[2]), Raised, Raised>> :
          t1 \in ExtractTexts, t2 \in ExtractTexts}
  /\ generator_details =
       [i \in 1..NumGenerations |-> DetailOf(models_to_run[i], attempt_outcomes[i])]
  /\ gen_tokens = <<GenerationUsage[1] * 2, GenerationUsage[2] * 2>>
  /\ generation_calls = NumGenerations
  /\ valid_descriptions = ValidDescriptions(generator_details)
  /\ enhanced_result = NotYet
  /\ final_result = NotYet
  /\ judge_tokens = <<0, 0>>
  /\ judge_calls = 0
  /\ workflow_result = NotYet
  /\ judge_outcome = NotYet
  /\ judge_input = NotYet
  /\ row = NotYet
  /\ batch = NotYet

NextExtract ==
  \/ EnhancedProcessing
  \/ DecideFinalOutput({[kind |-> "unavailable"]}, PlainJudgeOutcomes)
  \/ FormatResults

SpecExtract == InitExtract /\ [][NextExtract]_vars

\* rows handed to process_single_manga_row: a plain title, a title with
\* bracketed metadata and trailing marks, and a None title
DecoratedTitle == <<"T", " ", "[", "x", "]", "~", "edition", "!", " ">>
RowTitles == {StrTitle(Title), StrTitle(DecoratedTitle), NoneTitle}
RowInputs == {RowData(i, t) : i \in 0..1, t \in RowTitles}
RowConfigs == {ConfigOf(n, FALSE) : n \in 0..1}

InitRow ==
  /\ pc = "row"
  /\ row \in {[data |-> d, result |-> NotYet] : d \in RowInputs}
  /\ config \in RowConfigs
  /\ manga_title = <<>>
  /\ models_to_run = <<>>
  /\ attempt = 0
  /\ generator_details = <<>>
  /\ gen_tokens = <<0, 0>>
  /\ generation_calls = 0
  /\ valid_descriptions = <<>>
  /\ enhanced_result = NotYet
  /\ final_result = NotYet
  /\ judge_tokens = <<0, 0>>
  /\ judge_calls = 0
  /\ workflow_result = NotYet
  /\ attempt_outcomes = <<>>
  /\ judge_outcome = NotYet
  /\ judge_input = NotYet
  /\ batch = NotYet

NextRow ==
  \/ CleanTitle
  \/ ValidateConfiguration
  \/ GenerateAttempt(PoolOutcomes)
  \/ GenerateReturn
  \/ EnhancedProcessing
  \/ DecideFinalOutput({[kind |-> "unavailable"]}, PlainJudgeOutcomes)
  \/ FormatResults
  \/ RowReturn
  \/ RowExcept

SpecRow == InitRow /\ [][NextRow]_vars

(***************************************************************************)
(* SpecBatch: process_manga_dataframe over frames of up to MaxRows rows    *)
(* whose workers finish in any order                                       *)
(***************************************************************************)
MaxRows == 3
MaxWorkers == 2

\* what the workflow of a row can return: a judged success, a judge that
\* raised after a failed attempt, and the error_result of a workflow exception
BatchResults(cfg) ==
  {format_workflow_results(
     FinalResult("SUCCESS", JudgeText(<<"{json}">>), JudgeText(GoodJudgeText), "STOP"),
     [i \in 1..NumGenerations |-> <<1, GateText>>],
     <<NumGenerations * GenerationUsage[1] + JudgeUsage[1],
       NumGenerations * GenerationUsage[2] + JudgeUsage[2]>>,
     cfg),
   format_workflow_results(
     JudgeRaisedResult,
     [i \in 1..NumGenerations |->
        <<1, IF i = 1 THEN FailureText("Invalid JSON") ELSE GateText>>],
     <<NumGenerations * GenerationUsage[1], NumGenerations * GenerationUsage[2]>>,
     cfg),
   RowErrorResult(cfg)}

\* the index labels of a frame are distinct, as read_csv and head give them:
\* 0, 1, 2, ... or, after a sort, labels in another order than the rows
AscendingLabels(n) == [i \in 1..n |-> i - 1]
DescendingLabels(n) == [i \in 1..n |-> 2 * (n - i) + 3]
BatchTitles == {StrTitle(Title), NoneTitle}

Frames ==
  {DataFrame(required_columns,
             [i \in 1..n |-> FrameRow(labels[i], titles[i])]) :
     <<n, labels, titles>> \in
       {<<k, l, t>> \in (0..MaxRows) \X
                         {AscendingLabels(MaxRows), DescendingLabels(MaxRows)} \X
                         [1..MaxRows -> BatchTitles] : TRUE}}
    \cup {DataFrame(required_columns \ {"authors_info"},
                    <<FrameRow(0, StrTitle(Title))>>)}

InitBatch ==
  /\ pc = "batch"
  /\ batch \in {[df |-> f,
                 max_workers |-> w,
                 step |-> "validate",
                 futures |-> <<>>,
                 completed |-> <<>>,
                 results_map |-> <<>>,
                 grand_total_input_tokens |-> 0,
                 grand_total_output_tokens |-> 0,
                 output_df |-> <<>>,
                 rates |-> NotYet,
                 attributes |-> NotYet] : f \in Frames, w \in 1..MaxWorkers}
  /\ row = NotYet
  /\ config = ConfigOf(1, FALSE)
  /\ manga_title = <<>>
  /\ models_to_run = <<>>
  /\ attempt = 0
  /\ generator_details = <<>>
  /\ gen_tokens = <<0, 0>>
  /\ generation_calls = 0
  /\ valid_descriptions = <<>>
  /\ enhanced_result = NotYet
  /\ final_result = NotYet
  /\ judge_tokens = <<0, 0>>
  /\ judge_calls = 0
  /\ workflow_result = NotYet
  /\ attempt_outcomes = <<>>
  /\ judge_outcome = NotYet
  /\ judge_input = NotYet

NextBatch ==
  \/ ValidateColumns
  \/ SubmitAll
  \/ WorkerStart
  \/ WorkerFinish(BatchResults(config))
  \/ CollectFuture
  \/ MapResults
  \/ SetAttributes

SpecBatch == InitBatch /\ [][NextBatch]_vars

(***************************************************************************)
(* Properties of the generator pool (checked under Spec)                   *)
(***************************************************************************)
\* generate_descriptions_step has returned
PoolReturned == pc \in {"enhance", "decide", "format", "done"}

\* the attempt failed: the call raised, or it returned a "FAILURE: ..." string
AttemptFailed(o) == o.raised \/ o.text.kind = "failure"

\* C6: for every non-empty list of M generator model ids, attempt i
\* (0 <= i < 4) runs ids[i mod M]: the rotation built by repetition and slice
\* has one model per attempt and equals the modulo schedule, and every
\* recorded attempt carries the model the schedule gives it.
ModuloSchedule ==
  (pc \notin {"start", "raised"}) =>
    /\ Len(config.generator_model_ids) >= 1
    /\ Len(models_to_run) = NumGenerations
    /\ \A i \in 0..(NumGenerations - 1) :
         models_to_run[i + 1] =
           config.generator_model_ids[(i % Len(config.generator_model_ids)) + 1]
    /\ \A i \in 1..Len(generator_details) :
         generator_details[i][1] =
           config.generator_model_ids[((i - 1) % Len(config.generator_model_ids)) + 1]

\* two models serve the four attempts as 0, 1, 0, 1 (ids are 1-based here)
ModuloScheduleWitness ==
  /\ Len(config.generator_model_ids) = 2
  /\ models_to_run = <<1, 2, 1, 2>>
  /\ PoolReturned
  /\ Len(generator_details) = NumGenerations

\* C7: an exception in a generation attempt becomes that attempt's
\* "FAILURE: ..." record and the loop goes on: while the loop runs there is
\* one record per attempt made, and the step returns exactly 4 records, the
\* i-th being attempt i's model with attempt i's text or failure string.
AttemptsIsolated ==
  /\ (pc = "raised") => (config.generator_model_ids = <<>>)
  /\ (pc = "generate") =>
       (Len(generator_details) = attempt /\ Len(attempt_outcomes) = attempt)
  /\ PoolReturned =>
       /\ Len(generator_details) = NumGenerations
       /\ Len(attempt_outcomes) = NumGenerations
       /\ \A i \in 1..NumGenerations :
            /\ generator_details[i][1] = models_to_run[i]
            /\ attempt_outcomes[i].raised =>
                 generator_details[i][2] = FailureText("Exception in generation")
            /\ ~attempt_outcomes[i].raised =>
                 generator_details[i][2] = attempt_outcomes[i].text

\* the first attempt raised and the attempts after it still ran and succeeded
AttemptsIsolatedWitness ==
  /\ PoolReturned
  /\ Len(attempt_outcomes) = NumGenerations
  /\ attempt_outcomes[1].raised
  /\ \A i \in 2..NumGenerations : ~AttemptFailed(attempt_outcomes[i])
  /\ Len(generator_details) = NumGenerations

\* C8: with an empty generator model list the step raises at once: the
\* workflow is at its start or has raised, no generation call was issued and
\* no generator record, valid description or later result exists.
EmptyPoolFailsFast ==
  (config.generator_model_ids = <<>>) =>
    /\ pc \in {"start", "raised"}
    /\ generation_calls = 0
    /\ attempt = 0
    /\ generator_details = <<>>
    /\ valid_descriptions = <<>>
    /\ enhanced_result = NotYet
    /\ final_result = NotYet
    /\ workflow_result = NotYet

EmptyPoolFailsFastWitness ==
  /\ config.generator_model_ids = <<>>
  /\ pc = "raised"
  /\ generation_calls = 0

\* the texts of the attempts that did not fail, in attempt order
RECURSIVE SucceededTexts(_)
SucceededTexts(outcomes) ==
  IF outcomes = <<>> THEN <<>>
  ELSE (IF AttemptFailed(Head(outcomes)) THEN <<>> ELSE <<Head(outcomes).text>>)
       \o SucceededTexts(Tail(outcomes))

\* C9: the descriptions handed to normalization and consensus are exactly
\* the texts of the attempts that did not fail, in attempt order, so no
\* failed attempt is among the normalized records; every failed attempt is
\* still in generator_details of the final result with its failure string.
FailedAttemptsExcludedButRecorded ==
  /\ PoolReturned =>
       /\ valid_descriptions = SucceededTexts(attempt_outcomes)
       /\ \A i \in 1..Len(valid_descriptions) : valid_descriptions[i].kind # "failure"
  /\ (enhanced_result # NotYet) =>
       enhanced_result.normalized_descriptions
         = NormalizeAll(SucceededTexts(attempt_outcomes))
  /\ (workflow_result # NotYet) =>
       /\ Len(workflow_result.generator_details) = Len(attempt_outcomes)
       /\ \A i \in 1..Len(attempt_outcomes) :
            AttemptFailed(attempt_outcomes[i]) =>
              /\ workflow_result.generator_details[i][1] = models_to_run[i]
              /\ workflow_result.generator_details[i][2].kind = "failure"
              /\ workflow_result.generator_details[i][2] =
                   (IF attempt_outcomes[i].raised
                    THEN FailureText("Exception in generation")
                    ELSE attempt_outcomes[i].text)

\* attempts 2 (raised) and 3 (failure string) failed, 1 and 4 are the pool
FailedAttemptsExcludedWitness ==
  /\ pc = "done"
  /\ ~AttemptFailed(attempt_outcomes[1])
  /\ attempt_outcomes[2].raised
  /\ ~attempt_outcomes[3].raised /\ attempt_outcomes[3].text.kind = "failure"
  /\ ~AttemptFailed(attempt_outcomes[4])
  /\ valid_descriptions = <<attempt_outcomes[1].text, attempt_outcomes[4].text>>
  /\ Len(workflow_result.generator_details) = NumGenerations
  /\ workflow_result.generator_details[2][2].kind = "failure"

(***************************************************************************)
(* Properties of the consensus resolver (checked under SpecConsensus)      *)
(***************************************************************************)
\* the normalized records and the report of the enhanced processing step
Records == enhanced_result.normalized_descriptions
Report == enhanced_result.factual_verification

\* the trimmed values record d lists in main_characters / authors
CharactersIn(d) == Range(StrippedStrings(d.main_characters))
AuthorsIn(d) == Range(StrippedStrings(d.authors))
DistinctCharacters == UNION {CharactersIn(Records[i]) : i \in 1..Len(Records)}
DistinctAuthors == UNION {AuthorsIn(Records[i]) : i \in 1..Len(Records)}

\* the number of distinct normalized records listing the value
RecordsWithCharacter(v) ==
  Cardinality({i \in 1..Len(Records) : v \in CharactersIn(Records[i])})
RecordsWithAuthor(v) ==
  Cardinality({i \in 1..Len(Records) : v \in AuthorsIn(Records[i])})

\* C1: with n >= 2 normalized records, a trimmed character or author is a
\* consensus member if and only if at least 2 distinct normalized records
\* list it; a value only one record lists is excluded however often that
\* record repeats it.
QuorumOfDistinctRecords ==
  (enhanced_result # NotYet /\ Len(Records) >= 2) =>
    /\ \A v \in DistinctCharacters :
         (v \in Range(Report.consensus_characters)) <=> (RecordsWithCharacter(v) >= 2)
    /\ \A v \in DistinctAuthors :
         (v \in Range(Report.consensus_authors)) <=> (RecordsWithAuthor(v) >= 2)

\* totalConsensusItems and totalCandidateItems, counted from the report and
\* from the normalized records
TotalConsensusItems ==
  Len(Report.consensus_characters) + Len(Report.consensus_authors)
    + (IF Truthy(Report.consensus_status) THEN 1 ELSE 0)
TotalCandidateItems ==
  Cardinality(DistinctCharacters) + Cardinality(DistinctAuthors)
    + (IF \E i \in 1..Len(Records) : Truthy(Records[i].status) THEN 1 ELSE 0)

\* the confidence, a rational num/den, equals the rational a/b
ConfidenceIs(a, b) ==
  Report.factual_confidence.num * b = a * Report.factual_confidence.den

\* C3: the confidence of a consensus report over c consensus items and p > 0
\* candidate items is min(100, c / p * 100 + c * 10), and 0 when p = 0.
ConfidenceFormula ==
  (enhanced_result # NotYet /\ Len(Records) >= 2) =>
    LET c == TotalConsensusItems
        p == TotalCandidateItems
    IN /\ Report.factual_confidence.den > 0
       /\ IF p > 0
          THEN IF c * 100 + c * 10 * p <= 100 * p
               THEN ConfidenceIs(c * 100 + c * 10 * p, p)
               ELSE ConfidenceIs(100, 1)
          ELSE ConfidenceIs(0, 1)

\* 2 consensus items out of 4 candidate items give exactly 70
ConfidenceFormulaWitness ==
  /\ enhanced_result # NotYet
  /\ Len(Records) >= 2
  /\ TotalConsensusItems = 2
  /\ TotalCandidateItems = 4
  /\ ConfidenceIs(70, 1)

\* C4: in every state the confidence of the report, which is the value the
\* decision gate compares, lies in [0, 100].
ConfidenceInRange ==
  (enhanced_result # NotYet) =>
    /\ Report.factual_confidence.den > 0
    /\ Report.factual_confidence.num >= 0
    /\ Report.factual_confidence.num <= 100 * Report.factual_confidence.den

\* the uncapped sum c / p * 100 + c * 10 exceeds 100 and the report says 100
ConfidenceInRangeWitness ==
  /\ enhanced_result # NotYet
  /\ Len(Records) >= 2
  /\ TotalCandidateItems > 0
  /\ TotalConsensusItems * 100 + TotalConsensusItems * 10 * TotalCandidateItems
       > 100 * TotalCandidateItems
  /\ ConfidenceIs(100, 1)
  /\ final_result # NotYet

DecisionPath ==
  IF judge_outcome = NotYet /\ final_result.judge_finish_reason = "N/A_CONSENSUS_USED"
  THEN "CONSENSUS" ELSE "ARBITER"

\* C2: the gate takes the CONSENSUS path if and only if there are at least 2
\* normalized records, the confidence is at least 56.0 and the consensus
\* description is a non-empty record; otherwise it takes the ARBITER path.
\* Confidence exactly 56.0 gives CONSENSUS, one record gives ARBITER.
GateChoosesConsensusIff ==
  (final_result # NotYet) =>
    /\ DecisionPath \in {"CONSENSUS", "ARBITER"}
    /\ (DecisionPath = "CONSENSUS") <=>
         /\ Len(Records) >= 2
         /\ Report.factual_confidence.num >= 56 * Report.factual_confidence.den
         /\ enhanced_result.consensus_description.kind = "dict"
    /\ (DecisionPath = "CONSENSUS") =>
         /\ final_result.final_status = "SUCCESS"
         /\ final_result.final_description.kind = "consensus_json"
         /\ judge_calls = 0
    /\ (DecisionPath = "ARBITER") => (judge_calls >= 1)

\* confidence exactly 56.0 (4 consensus items of 25) and the gate chose CONSENSUS
GateBoundaryWitness ==
  /\ final_result # NotYet
  /\ ConfidenceIs(56, 1)
  /\ Len(Records) >= 2
  /\ enhanced_result.consensus_description.kind = "dict"
  /\ DecisionPath = "CONSENSUS"

(***************************************************************************)
(* Properties of the arbiter path (checked under SpecJudge)                *)
(***************************************************************************)
\* the judge was asked and the answer it gave back lacks a required label
AnswerMissesLabel ==
  /\ judge_outcome # NotYet
  /\ judge_outcome.kind = "answered"
  /\ judge_outcome.answer.kind = "text"
  /\ ~HasRequiredSections(judge_outcome.answer.text)

\* C10: on the arbiter path, a response of the judge that lacks one of the
\* three required labels ends in a final status other than SUCCESS and in an
\* empty final description.
MissingLabelFailsArbitration ==
  (final_result # NotYet /\ AnswerMissesLabel) =>
    /\ final_result.final_status # "SUCCESS"
    /\ ~IsTruthyText(final_result.final_description)

\* the judge was asked and the backend invocation whose outcome the workflow
\* went on with raised
BackendRaised ==
  /\ judge_outcome # NotYet
  /\ judge_outcome.kind = "answered"
  /\ judge_outcome.answer.kind = "exception"

\* C11: when the arbiter backend invocation raises, the workflow ends with
\* the arbitration-exception status and without a final description; the
\* error text never becomes the description of a SUCCESS result.
BackendErrorFailsArbitration ==
  (final_result # NotYet /\ BackendRaised) =>
    /\ final_result.final_status = "FAILED_JUDGE_EXCEPTION"
    /\ final_result.final_description = NoText

\* json.loads parses the text into an object: the consensus path's
\* json.dumps of a dict, or a judge text that is one JSON object
JsonParseable(x) ==
  \/ x.kind = "consensus_json"
  \/ x.kind = "judge_text" /\ x.text = <<"{json}">>

\* C12: final_status is SUCCESS only with a final description that parses as
\* a JSON object; with none, or with one that does not parse, final_status is
\* one of the failure statuses.
SuccessOnlyWithJsonDescription ==
  (final_result # NotYet) =>
    /\ (final_result.final_status = "SUCCESS") =>
         JsonParseable(final_result.final_description)
    /\ ~JsonParseable(final_result.final_description) =>
         final_result.final_status \in {"FAILED_JUDGE_EXTRACTION", "FAILED_JUDGE_EXCEPTION"}

\* C13: one workflow issues at most one arbiter backend invocation, so no
\* invocation follows one that failed or answered unusably, with grounding
\* enabled or not.
AtMostOneArbiterInvocation ==
  /\ judge_calls <= 1
  /\ (judge_outcome # NotYet /\ judge_outcome.kind = "answered") =>
       Len(judge_outcome.invocations) <= 1

\* C14: the input built for the arbiter has one entry per generation
\* attempt, in attempt order: the text of an attempt that produced one, a
\* failure placeholder for an attempt that failed.
ArbiterInputCoversEveryAttempt ==
  (judge_input # NotYet) =>
    /\ Len(judge_input.entries) = Len(attempt_outcomes)
    /\ \A i \in 1..Len(attempt_outcomes) :
         IF AttemptFailed(attempt_outcomes[i])
         THEN judge_input.entries[i].kind = "failure"
         ELSE judge_input.entries[i] = attempt_outcomes[i].text

\* the tokens one backend outcome reports: none when the call raised
TokensOf(o) ==
  IF o.kind \in {"text", "no_candidates", "no_content"} THEN <<o.tin, o.tout>>
  ELSE <<0, 0>>

RECURSIVE SumTokens(_)
SumTokens(tokens) ==
  IF tokens = <<>> THEN <<0, 0>>
  ELSE <<Head(tokens)[1] + SumTokens(Tail(tokens))[1],
         Head(tokens)[2] + SumTokens(Tail(tokens))[2]>>

\* the tokens the generation attempts returned, 0 for an attempt that raised
GenerationTokens ==
  SumTokens([i \in 1..Len(attempt_outcomes) |->
               IF attempt_outcomes[i].raised THEN <<0, 0>>
               ELSE <<attempt_outcomes[i].tin, attempt_outcomes[i].tout>>])

\* the tokens the arbiter invocations reported, 0 on the CONSENSUS path
ArbitrationTokens ==
  IF judge_outcome # NotYet /\ judge_outcome.kind = "answered"
  THEN SumTokens([i \in 1..Len(judge_outcome.invocations) |->
                    TokensOf(judge_outcome.invocations[i])])
  ELSE <<0, 0>>

\* C15: the totals of the final record are the generation tokens plus the
\* arbitration tokens, input and output each.
TokenTotalsAreSums ==
  (workflow_result # NotYet) =>
    /\ workflow_result.total_input_tokens_workflow
         = GenerationTokens[1] + ArbitrationTokens[1]
    /\ workflow_result.total_output_tokens_workflow
         = GenerationTokens[2] + ArbitrationTokens[2]

\* the authors at least two normalized records list
SharedAuthors == {v \in DistinctAuthors : RecordsWithAuthor(v) >= 2}

\* 4 attempts, exactly 1 failed, the other 3 normalized, and exactly 2 of the
\* 3 records share an author
OneFailedTwoShareAuthor ==
  /\ enhanced_result # NotYet
  /\ Len(attempt_outcomes) = NumGenerations
  /\ Cardinality({i \in 1..NumGenerations : AttemptFailed(attempt_outcomes[i])}) = 1
  /\ Len(Records) = 3
  /\ Cardinality(SharedAuthors) = 1
  /\ \A v \in SharedAuthors : RecordsWithAuthor(v) = 2

\* C16: when exactly 1 of the 4 attempts fails, the other 3 normalize and
\* exactly 2 of them share an author, the workflow takes the CONSENSUS path,
\* ends with SUCCESS, and the consensus authors are exactly the shared author.
SharedAuthorScenarioGivesConsensus ==
  (OneFailedTwoShareAuthor /\ final_result # NotYet) =>
    /\ DecisionPath = "CONSENSUS"
    /\ final_result.final_status = "SUCCESS"
    /\ Range(Report.consensus_authors) = SharedAuthors
    /\ Len(Report.consensus_authors) = 1

\* the non-empty status strings of the normalized records, in record order
RECURSIVE StatusStringsOf(_)
StatusStringsOf(nds) ==
  IF nds = <<>> THEN <<>>
  ELSE (IF IsStr(Head(nds).status) /\ Head(nds).status.s # <<>>
        THEN <<Head(nds).status>> ELSE <<>>) \o StatusStringsOf(Tail(nds))

StatusStrings == StatusStringsOf(Records)

\* how often the status occurs, and where it occurs first
StatusVotes(v) == Cardinality({i \in 1..Len(StatusStrings) : StatusStrings[i] = v})
FirstSeen(v) == CHOOSE i \in 1..Len(StatusStrings) :
                  /\ StatusStrings[i] = v
                  /\ \A j \in 1..(i - 1) : StatusStrings[j] # v

\* v has the most votes, and every other status with as many was seen later
IsPlurality(v) ==
  /\ v \in Range(StatusStrings)
  /\ \A w \in Range(StatusStrings) :
       \/ StatusVotes(w) < StatusVotes(v)
       \/ StatusVotes(w) = StatusVotes(v) /\ FirstSeen(v) <= FirstSeen(w)

\* C17: the consensus status of a report over n >= 2 records is the
\* plurality value of the records' non-empty status strings, the first seen
\* among equals, and it is absent exactly when no record has a status.
ConsensusStatusIsPlurality ==
  (enhanced_result # NotYet /\ Len(Records) >= 2) =>
    IF StatusStrings = <<>>
    THEN ~Truthy(Report.consensus_status)
    ELSE IsPlurality(Report.consensus_status)

\* the valid descriptions whose normalization is not empty, in order, and the
\* value a description gives for a key
Usable(text) == ~_normalize_description_structure(text).empty
UsableDescriptions == SelectSeq(valid_descriptions, Usable)
SourceField(text, key) == Get(extract_json_from_text(text), key)
SourceHas(text, key) == HasKey(extract_json_from_text(text), key)

PersonFields == {"authors", "artists", "main_characters"}
ListFields == PersonFields \cup {"alternative_titles", "genres"}

\* string kept, object gives its name, entries with no usable name dropped
PlainName(entry) ==
  IF IsStr(entry) THEN <<entry>>
  ELSE IF IsDict(entry) /\ HasKey(entry, "name") /\ IsStr(Get(entry, "name"))
          /\ Get(entry, "name").s # <<>>
       THEN <<Get(entry, "name")>>
       ELSE <<>>

RECURSIVE PlainNames(_)
PlainNames(l) == IF l = <<>> THEN <<>> ELSE PlainName(Head(l)) \o PlainNames(Tail(l))

\* C18: in every normalized record the authors, artists and characters built
\* from a source list hold plain strings only: each string entry as is, each
\* object entry's name, and nothing for an entry with no usable name.
PersonEntriesArePlainStrings ==
  (enhanced_result # NotYet /\ Len(Records) = Len(UsableDescriptions)) =>
    \A i \in 1..Len(Records) : \A f \in PersonFields :
      /\ \A j \in 1..Len(Records[i][f]) : IsStr(Records[i][f][j])
      /\ IsList(SourceField(UsableDescriptions[i], f)) =>
           Records[i][f] = PlainNames(SourceField(UsableDescriptions[i], f).l)

\* C19: in every normalized record each list-valued canonical field is a
\* list: the single-element list of a bare scalar found in the source, the
\* empty list when the source has no such field, and never null.
ListFieldsWrapScalars ==
  (enhanced_result # NotYet /\ Len(Records) = Len(UsableDescriptions)) =>
    \A i \in 1..Len(Records) : \A f \in ListFields :
      LET source == SourceField(UsableDescriptions[i], f)
      IN /\ DOMAIN Records[i][f] = 1..Len(Records[i][f])
         /\ (IsStr(source) /\ source.s # <<>>) => Records[i][f] = <<source>>
         /\ ~SourceHas(UsableDescriptions[i], f) => Records[i][f] = <<>>

\* the keys of the normalized structure
CanonicalFields ==
  {"index", "title", "alternative_titles", "type", "authors", "artists",
   "genres", "synopsis", "main_characters", "publication_info", "status"}

\* C20: normalization gives, for every valid description, either the empty
\* result or a record of the canonical fields, and the pool of normalized
\* records is exactly the non-empty results, in order: a description that
\* does not normalize is dropped and the others are kept unchanged.
NormalizationDropsOnlyFailures ==
  enhanced_result # NotYet =>
    /\ \A i \in 1..Len(valid_descriptions) :
         LET normalized == _normalize_description_structure(valid_descriptions[i])
         IN normalized.empty \/ DOMAIN normalized.d = CanonicalFields
    /\ Len(Records) = Len(UsableDescriptions)
    /\ \A i \in 1..Len(Records) :
         Records[i] = _normalize_description_structure(UsableDescriptions[i]).d

\* unparseable text, a non-object and an object of unexpected shape were
\* normalized before a usable description, which alone is in the pool
NormalizationDropsOnlyFailuresWitness ==
  /\ enhanced_result # NotYet
  /\ valid_descriptions =
       <<ProseText, NonObjectText, BadPublicationText, AbsentListsText>>
  /\ Len(Records) = 1
  /\ Records[1].status = Completed

\* C21: extraction returns the object itself from its direct serialization
\* and from that serialization in a fenced block tagged json inside prose,
\* and the empty result from prose holding no object.
ExtractorRoundTrip ==
  enhanced_result # NotYet =>
    \A i \in 1..Len(valid_descriptions) :
      LET text == valid_descriptions[i]
      IN /\ \A o \in ExtractObjects :
              /\ text = DirectText(o) => extract_json_from_text(text) = o
              /\ \A indent \in Indents :
                   text = FencedText(indent, o) => extract_json_from_text(text) = o
         /\ text \in {PlainProse, BracedProse} =>
              extract_json_from_text(text) = EmptyDict

\* the attempt whose generation call is running, if any
InFlight == IF pc = "calling" THEN {attempt + 1} ELSE {}
Unstarted == {i \in 1..Len(models_to_run) : i > attempt /\ i \notin InFlight}

\* every recorded result is at the slot of its own attempt number
ResultsInOwnSlots ==
  /\ Len(generator_details) = Len(attempt_outcomes)
  /\ \A i \in 1..Len(generator_details) :
       generator_details[i] = DetailOf(models_to_run[i], attempt_outcomes[i])

Reordered(p) == [i \in 1..Len(valid_descriptions) |-> valid_descriptions[p[i]]]

SameReport(a, b) ==
  /\ Range(a.consensus_characters) = Range(b.consensus_characters)
  /\ Range(a.consensus_authors) = Range(b.consensus_authors)
  /\ a.consensus_status = b.consensus_status
  /\ a.factual_confidence = b.factual_confidence

SameRecord(a, b) ==
  /\ a.kind = b.kind
  /\ a.kind = "dict" =>
       /\ a.d.title = b.d.title
       /\ a.d.status = b.d.status
       /\ Range(a.d.authors) = Range(b.d.authors)
       /\ Range(a.d.main_characters) = Range(b.d.main_characters)

\* C23: whatever the order of the same candidates, the consensus report
\* (characters and authors as sets, status, confidence), the decision path
\* and the content of the consensus record are the same.
CandidateOrderInsignificant ==
  (enhanced_result # NotYet /\ Len(Records) >= 2) =>
    \A p \in Permutations(1..Len(valid_descriptions)) :
      LET other == EnhancedResultOf(Reordered(p), manga_title)
      IN /\ SameReport(other.factual_verification, Report)
         /\ should_use_consensus(other) = should_use_consensus(enhanced_result)
         /\ SameRecord(other.consensus_description,
                       enhanced_result.consensus_description)

\* the keys every row result carries
RowResultKeys ==
  {"generator_details", "judge_model_id_used", "judge_full_output",
   "final_status", "final_description", "total_input_tokens_workflow",
   "total_output_tokens_workflow"}

\* process_single_manga_row is over: it returned or an exception left it
RowCallOver == pc \in {"row_done", "row_raised"}

\* C24: process_single_manga_row returns (df_index, result) for every row
\* and never raises; a row whose handling raised, a None title included,
\* gets FAILED_WORKFLOW_EXCEPTION, no final description and zero tokens; and
\* every result carries the seven result keys.
RowAlwaysReturnsResult ==
  (row # NotYet /\ RowCallOver) =>
    /\ pc = "row_done"
    /\ row.result[1] = row.data.df_index
    /\ RowResultKeys \subseteq DOMAIN row.result[2]
    /\ (row.data.original_manga_title = NoneTitle
          \/ Len(config.generator_model_ids) = 0) =>
         /\ row.result[2].final_status = "FAILED_WORKFLOW_EXCEPTION"
         /\ row.result[2].final_description = NotYet
         /\ row.result[2].total_input_tokens_workflow = 0
         /\ row.result[2].total_output_tokens_workflow = 0

\* the judge answered with a text, and the text the workflow went on with
JudgeAnsweredText ==
  /\ final_result # NotYet
  /\ judge_outcome # NotYet
  /\ judge_outcome.kind = "answered"
  /\ judge_outcome.answer.kind = "text"

AnsweredText ==
  IF judge_outcome.by = "grounded"
  THEN StripTokens(judge_outcome.answer.text) ELSE judge_outcome.answer.text

\* the response was taken as a structured judge output
AnswerAccepted ==
  JudgeAnsweredText /\ final_result.judge_full_output = JudgeText(AnsweredText)

\* the three labels occur, in the required order
LabelsInOrder(text) ==
  \E i, j, k \in 1..Len(text) :
    /\ i < j /\ j < k
    /\ text[i] = EvaluateSimilarity
    /\ text[j] = ConfidenceScore
    /\ text[k] = FinalDescriptionLabel

\* C25: an arbiter response is accepted only if the three section labels all
\* occur in the order Evaluate Similarity, Confidence Score, Final
\* Description.
AcceptedOnlyWithLabelsInOrder ==
  AnswerAccepted => LabelsInOrder(AnsweredText)

\* everything after the last Final Description label
AfterLastLabel(text) ==
  LET labels == {i \in 1..Len(text) : text[i] = FinalDescriptionLabel}
  IN SubSeq(text, Max(labels) + 1, Len(text))

\* C26: for an accepted arbiter response the final description is all the
\* text after the last Final Description label, up to the end of the
\* response.
FinalDescriptionIsTextAfterLastLabel ==
  AnswerAccepted =>
    final_result.final_description = JudgeText(StripTokens(AfterLastLabel(AnsweredText)))

\* the synthesized consensus record, when there is one
ConsensusRecord == enhanced_result.consensus_description
HasConsensusRecord == enhanced_result # NotYet /\ ConsensusRecord.kind = "dict"

\* record b is the first of the records with the longest rendering
IsBase(b) ==
  /\ \A j \in 1..Len(Records) : StrLen(Records[j]) <= StrLen(Records[b])
  /\ \A j \in 1..(b - 1) : StrLen(Records[j]) < StrLen(Records[b])

\* C27: the consensus record has the canonical input title, and its
\* characters, authors and status are the consensus values where these are
\* non-empty and otherwise those of the base record, the first of the
\* normalized records with the longest rendering.
ConsensusRecordOverBase ==
  HasConsensusRecord =>
    \E b \in 1..Len(Records) :
      /\ IsBase(b)
      /\ ConsensusRecord.d.title = JStr(manga_title)
      /\ ConsensusRecord.d.main_characters =
           IF Report.consensus_characters # <<>>
           THEN Report.consensus_characters ELSE Records[b].main_characters
      /\ ConsensusRecord.d.authors =
           IF Report.consensus_authors # <<>>
           THEN Report.consensus_authors ELSE Records[b].authors
      /\ ConsensusRecord.d.status =
           IF Truthy(Report.consensus_status)
           THEN Report.consensus_status ELSE Records[b].status

\* the base is the second record and has another title; the characters come
\* from the consensus, the authors from the base
ConsensusRecordOverBaseWitness ==
  /\ HasConsensusRecord
  /\ Len(Records) = 2
  /\ IsBase(2)
  /\ Records[2].title # JStr(manga_title)
  /\ Report.consensus_characters = <<NameA>>
  /\ Report.consensus_authors = <<>>
  /\ ConsensusRecord.d.main_characters = <<NameA>>
  /\ ConsensusRecord.d.authors = <<AuthorX>>
  /\ ConsensusRecord.d.title = JStr(manga_title)

\* C28: on the CONSENSUS path every consensus value is backed by at least 2
\* normalized records: every consensus character, every consensus author and
\* the consensus status.
ConsensusValuesBackedByTwoRecords ==
  (final_result # NotYet /\ DecisionPath = "CONSENSUS") =>
    /\ \A v \in Range(Report.consensus_characters) : RecordsWithCharacter(v) >= 2
    /\ \A v \in Range(Report.consensus_authors) : RecordsWithAuthor(v) >= 2
    /\ Truthy(Report.consensus_status) => StatusVotes(Report.consensus_status) >= 2

\* the arbiter was invoked: a backend was called, or the call raised
JudgeInvoked == judge_calls > 0 \/ judge_outcome # NotYet

\* the gate of decide_final_output_step accepted the consensus
GateAccepted == enhanced_result # NotYet /\ should_use_consensus(enhanced_result)

\* C29: the steps occur in the order generation, enhanced processing,
\* decision, formatting: each step result exists only when the result of the
\* step before it does, the arbiter is invoked only after all NumGenerations
\* attempts have completed and only when the gate rejected the consensus, and
\* on the CONSENSUS path there is no arbiter call, the arbiter token counts
\* are 0 and judge_finish_reason is N/A_CONSENSUS_USED.
StepsInOrderArbiterLast ==
  /\ enhanced_result # NotYet =>
       Len(attempt_outcomes) = NumGenerations /\ InFlight = {}
  /\ final_result # NotYet => enhanced_result # NotYet
  /\ workflow_result # NotYet => final_result # NotYet
  /\ JudgeInvoked =>
       /\ Len(attempt_outcomes) = NumGenerations
       /\ InFlight = {}
       /\ enhanced_result # NotYet
       /\ ~should_use_consensus(enhanced_result)
  /\ (GateAccepted /\ final_result # NotYet) =>
       /\ ~JudgeInvoked
       /\ judge_tokens = <<0, 0>>
       /\ final_result.judge_finish_reason = "N/A_CONSENSUS_USED"
  /\ (GateAccepted /\ workflow_result # NotYet) =>
       /\ workflow_result.judge_finish_reason = "N/A_CONSENSUS_USED"
       /\ workflow_result.total_input_tokens_workflow = gen_tokens[1]
       /\ workflow_result.total_output_tokens_workflow = gen_tokens[2]

\* a run that ended on the CONSENSUS path after a failed attempt
StepsInOrderArbiterLastWitness ==
  /\ pc = "done"
  /\ GateAccepted
  /\ \E i \in 1..NumGenerations : AttemptFailed(attempt_outcomes[i])
  /\ judge_calls = 0
  /\ workflow_result.judge_finish_reason = "N/A_CONSENSUS_USED"
  /\ workflow_result.final_status = "SUCCESS"

\* a run that ended on the ARBITER path
ArbiterPathTaken == pc = "done" /\ JudgeInvoked /\ judge_calls > 0

\* the result row i of the frame stands for: what its own call returned, or
\* the error result when its future raised
OwnResult(i) ==
  LET o == batch.futures[i].outcome
  IN IF o.raised THEN FutureErrorResult(config) ELSE o.value[2]

RECURSIVE SumOwn(_, _)
SumOwn(n, key) == IF n = 0 THEN 0 ELSE SumOwn(n - 1, key) + OwnResult(n)[key]

BatchDone == batch # NotYet /\ batch.step = "done"

\* C30: for a frame with the required columns, under every completion order,
\* every row of the output carries at its own index the cells of its own
\* workflow result, no row is left NOT_PROCESSED, a row whose future raised
\* has FAILED_WORKFLOW_EXCEPTION, and the batch token totals are the sums of
\* the totals of the rows.
BatchMapsEveryRowToItsIndex ==
  BatchDone =>
    /\ Len(batch.output_df) = Len(batch.df.rows)
    /\ \A i \in 1..Len(batch.df.rows) :
         /\ batch.output_df[i].label = batch.df.rows[i].label
         /\ batch.output_df[i].final_status = OwnResult(i).final_status
         /\ batch.output_df[i].final_status # "NOT_PROCESSED"
         /\ batch.futures[i].outcome.raised =>
              batch.output_df[i].final_status = "FAILED_WORKFLOW_EXCEPTION"
         /\ batch.output_df[i].judge_eval_text = OwnResult(i).judge_full_output
         /\ batch.output_df[i].final_description_json =
              CellOf(OwnResult(i).final_description)
         /\ \A k \in 1..4 :
              batch.output_df[i].descs[k] = OwnResult(i).generator_details[k][2]
    /\ batch.attributes.workflow_total_input_tokens =
         SumOwn(Len(batch.df.rows), "total_input_tokens_workflow")
    /\ batch.attributes.workflow_total_output_tokens =
         SumOwn(Len(batch.df.rows), "total_output_tokens_workflow")

\* three rows finished in another order than they were submitted, one of
\* them with a future that raised, the other two with different results
BatchMapsEveryRowToItsIndexWitness ==
  /\ BatchDone
  /\ Len(batch.df.rows) = 3
  /\ batch.completed = <<2, 1, 3>>
  /\ batch.futures[3].outcome.raised
  /\ ~batch.futures[1].outcome.raised
  /\ ~batch.futures[2].outcome.raised
  /\ OwnResult(1).final_status = "SUCCESS"
  /\ OwnResult(2).final_status = "FAILED_JUDGE_EXCEPTION"
  /\ batch.output_df[3].final_status = "FAILED_WORKFLOW_EXCEPTION"
  /\ batch.attributes.workflow_total_input_tokens > 0

====
